---- MODULE Spec2Model ----
(***************************************************************************)
(* Invoice / quotation backend: recipient matching and the cross-user      *)
(* notification pipeline (invoices controller, quotations controller,      *)
(* recipient.util, profiles, customers, auth register).                    *)
(*                                                                         *)
(* Strings are sequences of one-character strings, so that normalisation   *)
(* (digit stripping, slicing, lower-casing, trimming, pattern tests) is    *)
(* computed the way the code computes it.  JS null/undefined is the tagged *)
(* value Null, which no character string equals.                           *)
(*                                                                         *)
(* The store client resolves every call to {data, error}: a failed call    *)
(* yields data = null and an error object, it does not reject.  Mail and   *)
(* push transports fail by throwing.  Every handler takes the set of its   *)
(* store/transport calls that fail as an input.                            *)
(***************************************************************************)
EXTENDS Integers, Sequences, FiniteSets, TLC

\* ------------------------------------------------------------------------
\* Strings
\* ------------------------------------------------------------------------
Null == <<"NULL">>

Truthy(s) == s # Null /\ s # <<>>

\* a ?? b
Coalesce(a, b) == IF a # Null THEN a ELSE b

\* a || b
OrElse(a, b) == IF Truthy(a) THEN a ELSE b

Digits == {"0", "1", "2", "3", "4", "5", "6", "7", "8", "9"}

IsDigit(c) == c \in Digits

\* the regex class \s
IsSpace(c) == c \in {" ", "\t"}

UpperChars == <<"A","B","C","D","E","F","G","H","I","J","K","L","M",
                "N","O","P","Q","R","S","T","U","V","W","X","Y","Z">>

LowerChars == <<"a","b","c","d","e","f","g","h","i","j","k","l","m",
                "n","o","p","q","r","s","t","u","v","w","x","y","z">>

LowerOf ==
  [c \in {UpperChars[i] : i \in DOMAIN UpperChars} |->
     LowerChars[CHOOSE i \in DOMAIN UpperChars : UpperChars[i] = c]]

LowerChar(c) == IF c \in DOMAIN LowerOf THEN LowerOf[c] ELSE c

\* String.prototype.toLowerCase
ToLower(s) == [i \in DOMAIN s |-> LowerChar(s[i])]

RECURSIVE TrimLeft(_)
TrimLeft(s) == IF s # <<>> /\ IsSpace(Head(s)) THEN TrimLeft(Tail(s)) ELSE s

RECURSIVE TrimRight(_)
TrimRight(s) ==
  IF s # <<>> /\ IsSpace(s[Len(s)]) THEN TrimRight(SubSeq(s, 1, Len(s) - 1)) ELSE s

\* String.prototype.trim
Trim(s) == TrimRight(TrimLeft(s))

\* s.replace(/\D/g, '')
StripNonDigits(s) == SelectSeq(s, IsDigit)

\* s.slice(-n)
SliceLast(s, n) == IF Len(s) <= n THEN s ELSE SubSeq(s, Len(s) - n + 1, Len(s))

\* /^[^\s@]+@[^\s@]+\.[^\s@]+$/.test(e)
EmailPattern(e) ==
  /\ \A i \in DOMAIN e : ~IsSpace(e[i])
  /\ Cardinality({i \in DOMAIN e : e[i] = "@"}) = 1
  /\ \E i \in DOMAIN e :
       /\ e[i] = "@"
       /\ i > 1
       /\ \E j \in DOMAIN e : j > i + 1 /\ j < Len(e) /\ e[j] = "."

\* SQL LIKE: % matches any run of characters, _ matches one character
RECURSIVE LikeMatch(_, _)
LikeMatch(s, p) ==
  IF p = <<>> THEN s = <<>>
  ELSE IF Head(p) = "%"
       THEN LikeMatch(s, Tail(p)) \/ (s # <<>> /\ LikeMatch(Tail(s), p))
       ELSE /\ s # <<>>
            /\ (Head(p) = "_" \/ Head(p) = Head(s))
            /\ LikeMatch(Tail(s), Tail(p))

\* column LIKE pattern; a NULL column matches nothing
Like(col, pattern) == col # Null /\ LikeMatch(col, pattern)

\* column ILIKE pattern
ILike(col, pattern) == col # Null /\ LikeMatch(ToLower(col), ToLower(pattern))

\* column = value; a NULL column matches nothing
Eq(col, value) == col # Null /\ col = value

\* ------------------------------------------------------------------------
\* recipient.util
\* ------------------------------------------------------------------------
PhoneLen == 10

normalizePhone(phone) ==
  IF ~Truthy(phone) THEN <<>> ELSE SliceLast(StripNonDigits(phone), PhoneLen)

\* a normalisation that trims without lowercasing
normalizeEmailKeepCase(email) ==
  IF ~Truthy(email) THEN <<>> ELSE Trim(email)

normalizeEmail(email) ==
  IF ~Truthy(email) THEN <<>> ELSE Trim(ToLower(email))

phoneForStorage(phone) ==
  LET digits == StripNonDigits(Coalesce(phone, <<>>))
  IN  IF Len(digits) < PhoneLen THEN Null ELSE SliceLast(digits, PhoneLen)

emailForStorage(email) ==
  LET e == normalizeEmail(email)
  IN  IF ~Truthy(e) \/ ~EmailPattern(e) THEN Null ELSE e

\* ------------------------------------------------------------------------
\* Bounds and request inputs
\* ------------------------------------------------------------------------
MaxCustomers == 1
MaxDocs == 1
MaxItems == 2

Users == {"A", "B", "C"}

\* row order of the profiles table
UserOrder == <<"A", "B", "C">>

\* the users that issue customer and document create requests
Senders == {"A", "B"}

PhoneA == <<"9","0","0","0","0","0","0","0","0","1">>
PhoneBRaw == <<"+","9","1"," ","9","8","7","6","5","-","4","3","2","1","0">>
PhoneC == <<"7","0","0","0","0","0","0","0","0","2">>
PhoneNew == <<"8","0","0","0","0","0","0","0","0","3">>
PhoneShort == <<"1","2","3","4","5">>

EmailA == <<"a","@","x",".","c","o">>
EmailB == <<"B","_","b","@","X",".","C","O">>
EmailBRaw == <<" ","B","_","b","@","X",".","C","O"," ">>
EmailC == <<"b","x","b","@","x",".","c","o">>
EmailBad == <<"b","a","d">>
EmailMixed == <<"C","@","x",".","c","o"," ">>
EmailBadRaw == <<"B","a","d"," ">>

ExpoPrefix ==
  <<"E","x","p","o","n","e","n","t","P","u","s","h","T","o","k","e","n","[">>
PushToken == ExpoPrefix \o <<"t","]">>

RegisterBody(u) ==
  CASE u = "A" -> [email |-> EmailA, phone |-> PhoneA]
    [] u = "B" -> [email |-> EmailB, phone |-> PhoneBRaw]
    [] OTHER   -> [email |-> EmailC, phone |-> PhoneC]

RegisterBodies(u) ==
  {RegisterBody(u), [email |-> RegisterBody(u).email, phone |-> PhoneShort]}

\* PATCH profiles/me bodies; Null stands for an absent field.  B changes its
\* number to a new one or to one too short to store; C enters B's number.
PhoneEdits(u) ==
  CASE u = "B" -> { [phone |-> PhoneNew,   email |-> Null, expo_push_token |-> Null],
                    [phone |-> PhoneShort, email |-> Null, expo_push_token |-> Null],
                    [phone |-> Null,       email |-> Null, expo_push_token |-> Null] }
    [] u = "C" -> { [phone |-> PhoneBRaw,  email |-> Null, expo_push_token |-> Null],
                    [phone |-> Null,       email |-> Null, expo_push_token |-> Null] }
    [] OTHER   -> { [phone |-> Null,       email |-> Null, expo_push_token |-> Null] }

TokenEdits(u) ==
  IF u = "B"
  THEN { [phone |-> PhoneShort, email |-> Null, expo_push_token |-> Null],
         [phone |-> Null,       email |-> Null, expo_push_token |-> PushToken],
         [phone |-> Null,       email |-> Null, expo_push_token |-> Null] }
  ELSE { [phone |-> Null,       email |-> Null, expo_push_token |-> Null] }

\* B drops its number, C enters an email address
StoreEdits(u) ==
  CASE u = "B" -> { [phone |-> PhoneShort, email |-> Null, expo_push_token |-> Null] }
    [] u = "C" -> { [phone |-> Null, email |-> EmailMixed, expo_push_token |-> Null] }
    [] OTHER   -> { [phone |-> Null, email |-> Null, expo_push_token |-> Null] }

UpdateMeBodies(u) == PhoneEdits(u) \cup TokenEdits(u) \cup StoreEdits(u)

CustomerBodies ==
  { [name |-> <<"N">>, phone |-> PhoneBRaw, email |-> Null],
    [name |-> <<"N">>, phone |-> PhoneBRaw, email |-> EmailBRaw],
    [name |-> <<"N">>, phone |-> Null,      email |-> Null],
    [name |-> <<" ">>, phone |-> Null,      email |-> Null] }

\* PATCH customers/:id bodies; Null stands for an absent field
CustomerUpdateBodies ==
  { [phone |-> Null,       email |-> EmailBadRaw],
    [phone |-> PhoneShort, email |-> Null],
    [phone |-> PhoneC,     email |-> EmailBRaw] }

\* create bodies; customer_id 0 and type "" stand for an absent field
CreateBodies ==
  { [number |-> <<"N","1">>, customer_id |-> 1, recipient_phone |-> Null,
     recipient_email |-> Null, type |-> "", items |-> 2],
    [number |-> <<"N","1">>, customer_id |-> 0, recipient_phone |-> Null,
     recipient_email |-> Null, type |-> "received", items |-> 0],
    [number |-> <<"N","1">>, customer_id |-> 0, recipient_phone |-> PhoneBRaw,
     recipient_email |-> Null, type |-> "", items |-> 0],
    [number |-> <<"N","1">>, customer_id |-> 0, recipient_phone |-> Null,
     recipient_email |-> EmailBRaw, type |-> "", items |-> 0],
    [number |-> <<"N","1">>, customer_id |-> 0, recipient_phone |-> Null,
     recipient_email |-> EmailC, type |-> "", items |-> 0],
    [number |-> <<"N","1">>, customer_id |-> 1, recipient_phone |-> Null,
     recipient_email |-> Null, type |-> "", items |-> 0],
    [number |-> <<"N","1">>, customer_id |-> 1, recipient_phone |-> Null,
     recipient_email |-> EmailBad, type |-> "", items |-> 0],
    [number |-> <<" ">>, customer_id |-> 1, recipient_phone |-> Null,
     recipient_email |-> Null, type |-> "", items |-> 0] }

\* the create bodies whose documents differ in what a list or get reads
ViewBodies == {b \in CreateBodies : b.items = 0 /\ b.recipient_email # EmailBad}

\* ------------------------------------------------------------------------
\* State
\* ------------------------------------------------------------------------
VARIABLES
  auth,       \* auth provider: user id -> the user object the AuthGuard attaches
  profiles,   \* table profiles, keyed by id
  customers,  \* table customers, id = index
  docs,       \* tables invoices and quotations, id = index, kind = table
  messages,   \* table messages, in insertion order
  resp,       \* the last request and its response
  otpStore,             \* OtpService.otpStore: normalized email -> {code, expiresAt}
  resetTokenStore,      \* OtpService.resetTokenStore: token -> {email, expiresAt}
  paymentSessionStore,  \* payments.service paymentSessionStore: sid -> session
  timers,     \* the setTimeout callbacks not yet run
  now,        \* Date.now(), in units of five minutes
  pending,    \* the requests suspended at an await
  hist        \* history: what was issued and what was accepted, in order

\* the state held in the server process, and its history
inProcess == <<otpStore, resetTokenStore, paymentSessionStore, timers, now, pending, hist>>

\* the tables of the backing store
tables == <<auth, profiles, customers, docs, messages>>

vars == <<auth, profiles, customers, docs, messages, resp, inProcess>>

NoAuth ==
  [registered |-> FALSE, email |-> Null, phone |-> Null,
   meta_phone |-> Null, meta_email |-> Null]

NoProfile ==
  [exists |-> FALSE, phone |-> Null, email |-> Null, expo_push_token |-> Null]

EmptyResp ==
  [op |-> "none", caller |-> "A", status |-> "none", doc |-> 0,
   entries |-> {}, receivers |-> {}, attempts |-> <<>>, pushed |-> <<>>,
   mailed |-> FALSE, writes |-> 0, myPhone |-> <<>>, myEmail |-> <<>>,
   rowBefore |-> NoProfile, fails |-> {}, persisted |-> 0, itemsOk |-> FALSE,
   explicitEmail |-> Null, requested |-> 0, pushCalled |-> FALSE, pushSent |-> <<>>,
   arg |-> Null, result |-> Null, again |-> Null,
   email |-> Null, code |-> Null, otp |-> "none", token |-> Null,
   sid |-> Null, session |-> Null, rows |-> <<>>, sought |-> 0]

\* the failure cases a handler is run with: none, one failing call, or
\* every call failing
FailureCases(steps) == {{}} \cup {{s} : s \in steps} \cup {steps}

\* ------------------------------------------------------------------------
\* POST auth/register
\* ------------------------------------------------------------------------
RegisterSteps == {"profileUpsert"}

IndianMobile(p) == Len(p) = PhoneLen /\ p[1] \in {"6", "7", "8", "9"}

\* .eq('phone', phoneNorm).maybeSingle(): data is null unless exactly one row
PhoneTaken(phoneNorm) ==
  Cardinality({v \in Users : profiles[v].exists /\ Eq(profiles[v].phone, phoneNorm)}) = 1

\* the user object auth.signUp creates
SignedUp(email, phone) ==
  [registered |-> TRUE, email |-> email, phone |-> Null,
   meta_phone |-> phone, meta_email |-> Null]

\* the row of register's profile upsert
RegisterRow(email, phone, old) ==
  [exists |-> TRUE,
   phone |-> OrElse(SliceLast(phone, PhoneLen), Null),
   email |-> OrElse(Trim(email), Null),
   expo_push_token |-> old.expo_push_token]

Register(u, body, f) ==
  LET email == Trim(body.email)
      phone == StripNonDigits(Trim(body.phone))
      phoneNorm == OrElse(phoneForStorage(phone), SliceLast(phone, PhoneLen))
      rejected ==
        \/ ~Truthy(email)
        \/ ~Truthy(phone) \/ Len(phone) < PhoneLen
        \/ ~IndianMobile(SliceLast(phone, PhoneLen))
        \/ PhoneTaken(phoneNorm)
        \/ \E v \in Users : auth[v].registered /\ ToLower(auth[v].email) = ToLower(email)
  IN  /\ ~auth[u].registered
      /\ IF rejected
         THEN /\ resp' = [EmptyResp EXCEPT !.op = "register", !.caller = u,
                                           !.status = "bad_request"]
              /\ UNCHANGED <<auth, profiles>>
         ELSE /\ auth' = [auth EXCEPT ![u] = SignedUp(email, phone)]
              /\ profiles' = IF "profileUpsert" \in f THEN profiles
                             ELSE [profiles EXCEPT ![u] = RegisterRow(email, phone, @)]
              /\ resp' = [EmptyResp EXCEPT !.op = "register", !.caller = u,
                                           !.status = "ok", !.writes = 1]
      /\ UNCHANGED <<customers, docs, messages, inProcess>>

\* the requests one specification lets wait at an await at a time
MaxPending == 2

\* register up to the await of its phone check: the body is validated, no
\* profile row is found to hold phoneNorm, and the handler goes on to signUp
RegisterCheck(u, body) ==
  LET email == Trim(body.email)
      phone == StripNonDigits(Trim(body.phone))
      phoneNorm == OrElse(phoneForStorage(phone), SliceLast(phone, PhoneLen))
      rejected ==
        \/ ~Truthy(email)
        \/ ~Truthy(phone) \/ Len(phone) < PhoneLen
        \/ ~IndianMobile(SliceLast(phone, PhoneLen))
        \/ PhoneTaken(phoneNorm)
  IN  /\ ~auth[u].registered
      /\ \A p \in pending : p.u # u
      /\ Cardinality(pending) < MaxPending
      /\ IF rejected
         THEN /\ resp' = [EmptyResp EXCEPT !.op = "register", !.caller = u,
                                           !.status = "bad_request"]
              /\ UNCHANGED pending
         ELSE /\ pending' = pending \cup {[op |-> "register", u |-> u, body |-> body]}
              /\ resp' = [EmptyResp EXCEPT !.op = "register", !.caller = u,
                                           !.status = "checked"]
      /\ UNCHANGED <<tables, otpStore, resetTokenStore, paymentSessionStore, timers,
                     now, hist>>

\* register from signUp on: the user is created unless its email is in use,
\* and the profile row is upserted, a failure of the upsert being swallowed
RegisterSignUp(p, f) ==
  LET u == p.u
      email == Trim(p.body.email)
      phone == StripNonDigits(Trim(p.body.phone))
      inUse == \E v \in Users :
                 auth[v].registered /\ ToLower(auth[v].email) = ToLower(email)
  IN  /\ p \in pending
      /\ p.op = "register"
      /\ pending' = pending \ {p}
      /\ IF inUse
         THEN /\ resp' = [EmptyResp EXCEPT !.op = "register", !.caller = u,
                                           !.status = "bad_request"]
              /\ UNCHANGED <<auth, profiles>>
         ELSE /\ auth' = [auth EXCEPT ![u] = SignedUp(email, phone)]
              /\ profiles' = IF "profileUpsert" \in f THEN profiles
                             ELSE [profiles EXCEPT ![u] = RegisterRow(email, phone, @)]
              /\ resp' = [EmptyResp EXCEPT !.op = "register", !.caller = u,
                                           !.status = "ok", !.writes = 1]
      /\ UNCHANGED <<customers, docs, messages, otpStore, resetTokenStore,
                     paymentSessionStore, timers, now, hist>>

\* ------------------------------------------------------------------------
\* In-process state: JavaScript Maps, the clock, requests at an await
\* ------------------------------------------------------------------------

\* new Map()
EmptyMap == <<>>

\* m.has(k)
MapHas(m, k) == k \in DOMAIN m

\* m.set(k, v)
MapSet(m, k, v) == [x \in DOMAIN m \cup {k} |-> IF x = k THEN v ELSE m[x]]

\* m.delete(k)
MapDelete(m, k) == [x \in DOMAIN m \ {k} |-> m[x]]

\* the clock counts units of five minutes
MaxTime == 4

\* 10 * 60 * 1000 ms
OtpTtl == 2

\* 15 * 60 * 1000 ms
ResetTokenTtl == 3

\* 5 * 60 * 1000 ms
SessionTtl == 1

EmptyHist ==
  [codes |-> <<>>, accepted |-> <<>>, tokens |-> <<>>, consumed |-> <<>>,
   sids |-> <<>>, redeemed |-> <<>>]

InitInProcess ==
  /\ otpStore = EmptyMap
  /\ resetTokenStore = EmptyMap
  /\ paymentSessionStore = EmptyMap
  /\ timers = {}
  /\ now = 0
  /\ pending = {}
  /\ hist = EmptyHist

\* accounts A and C exist from the start, as register leaves them; B signs up later
Registered0 == {"A", "C"}

Init ==
  /\ auth = [u \in Users |->
               IF u \in Registered0
               THEN SignedUp(Trim(RegisterBody(u).email),
                             StripNonDigits(Trim(RegisterBody(u).phone)))
               ELSE NoAuth]
  /\ profiles = [u \in Users |->
                   IF u \in Registered0
                   THEN RegisterRow(Trim(RegisterBody(u).email),
                                    StripNonDigits(Trim(RegisterBody(u).phone)),
                                    NoProfile)
                   ELSE NoProfile]
  /\ customers = <<>>
  /\ docs = <<>>
  /\ messages = <<>>
  /\ resp = EmptyResp
  /\ InitInProcess

\* ------------------------------------------------------------------------
\* PATCH profiles/me
\* ------------------------------------------------------------------------
UpdateMe(u, body) ==
  LET digits == IF body.phone = Null THEN <<>> ELSE StripNonDigits(Trim(body.phone))
      phone == IF Len(digits) >= PhoneLen THEN SliceLast(digits, PhoneLen) ELSE Null
      token == OrElse(Trim(Coalesce(body.expo_push_token, <<>>)), Null)
      email == OrElse(Trim(Coalesce(body.email, <<>>)), Null)
      row == [profiles[u] EXCEPT
                !.phone = IF body.phone # Null THEN phone ELSE @,
                !.email = IF body.email # Null THEN email ELSE @,
                !.expo_push_token = IF body.expo_push_token # Null THEN token ELSE @]
      noUpdates == body.phone = Null /\ body.email = Null /\ body.expo_push_token = Null
  IN  /\ auth[u].registered
      /\ IF noUpdates
         THEN /\ UNCHANGED profiles
              /\ resp' = [EmptyResp EXCEPT !.op = "updateMe", !.caller = u,
                                           !.status = "ok"]
         ELSE IF profiles[u].exists
         THEN /\ profiles' = [profiles EXCEPT ![u] = row]
              /\ resp' = [EmptyResp EXCEPT !.op = "updateMe", !.caller = u,
                                           !.status = "ok", !.writes = 1]
         ELSE /\ UNCHANGED profiles
              /\ resp' = [EmptyResp EXCEPT !.op = "updateMe", !.caller = u,
                                           !.status = "bad_request", !.writes = 1]
      /\ UNCHANGED <<auth, customers, docs, messages, inProcess>>

\* ------------------------------------------------------------------------
\* POST customers
\* ------------------------------------------------------------------------
CustomerCreate(u, body) ==
  /\ auth[u].registered
  /\ Len(customers) < MaxCustomers
  /\ IF ~Truthy(Trim(body.name))
     THEN /\ UNCHANGED customers
          /\ resp' = [EmptyResp EXCEPT !.op = "customerCreate", !.caller = u,
                                       !.status = "bad_request"]
     ELSE /\ customers' = Append(customers,
                                 [user_id |-> u,
                                  phone |-> phoneForStorage(body.phone),
                                  email |-> emailForStorage(body.email)])
          /\ resp' = [EmptyResp EXCEPT !.op = "customerCreate", !.caller = u,
                                       !.status = "ok"]
  /\ UNCHANGED <<auth, profiles, docs, messages, inProcess>>

\* ------------------------------------------------------------------------
\* PATCH customers/:id
\* ------------------------------------------------------------------------
\* updates.email: emailForStorage(body.email) || body.email?.trim() || null
CustomerUpdateEmail(email) ==
  OrElse(OrElse(emailForStorage(email), Trim(email)), Null)

CustomerUpdate(u, id, body) ==
  /\ auth[u].registered
  /\ IF id \in DOMAIN customers /\ customers[id].user_id = u
     THEN /\ customers' =
               [customers EXCEPT
                  ![id].phone = IF body.phone # Null THEN phoneForStorage(body.phone) ELSE @,
                  ![id].email = IF body.email # Null THEN CustomerUpdateEmail(body.email)
                                ELSE @]
          /\ resp' = [EmptyResp EXCEPT !.op = "customerUpdate", !.caller = u,
                                       !.status = "ok"]
     ELSE /\ UNCHANGED customers
          /\ resp' = [EmptyResp EXCEPT !.op = "customerUpdate", !.caller = u,
                                       !.status = "bad_request"]
  /\ UNCHANGED <<auth, profiles, docs, messages, inProcess>>

\* ------------------------------------------------------------------------
\* Document create: shared steps
\* ------------------------------------------------------------------------
\* .eq('id', customer_id).eq('user_id', caller).single()
CustomerOf(u, body, f) ==
  IF /\ body.customer_id # 0
     /\ "custRead" \notin f
     /\ body.customer_id \in DOMAIN customers
     /\ customers[body.customer_id].user_id = u
  THEN {customers[body.customer_id]}
  ELSE {}

\* type: body.type || 'sent'
PersistedType(body) == IF body.type # "" THEN body.type ELSE "sent"

\* the document insert returns an error: the call fails, or customer_id names no
\* customers row (the foreign key the embedded customers(...) select relies on)
DocInsertError(body, f) ==
  "docInsert" \in f \/ (body.customer_id # 0 /\ body.customer_id \notin DOMAIN customers)

\* status: body.status || 'pending'; deleted marks a row the table no longer holds
DocRow(kind, u, body, rcpt, nitems) ==
  [kind |-> kind, user_id |-> u, customer_id |-> body.customer_id,
   recipient_phone |-> rcpt.phone, recipient_email |-> rcpt.email,
   type |-> PersistedType(body), items |-> nitems,
   status |-> "pending", deleted |-> FALSE]

\* the line items the items insert leaves in the table
ItemsPersisted(body, f) ==
  IF body.items > 0 /\ "itemsInsert" \in f THEN 0 ELSE body.items

\* a failed items insert that the handler does not look at
ItemsErrorIgnored(body, f) == FALSE

\* if (items.length > 0) { insert; if (itemsError) throw new BadRequestException }
ItemsErrorThrown(body, f) == body.items > 0 /\ "itemsInsert" \in f

\* a handler that deletes the document row before it throws
RowsRolledBack(rows, row) == rows

\* the document table when the items insert has failed: the row inserted
\* before it stays, the handler throws without deleting it
RowsAfterItemsError(rows, row) == Append(rows, row)

\* the users of a set, in table row order
InRowOrder(S) == SelectSeq(UserOrder, LAMBDA u : u \in S)

\* Set.add of each element of seq, in order, to the insertion-ordered set acc
AddAll(acc, seq) ==
  acc \o SelectSeq(seq, LAMBDA u : \A i \in DOMAIN acc : acc[i] # u)

Range(seq) == {seq[i] : i \in DOMAIN seq}

RecvMsgStep(u) ==
  CASE u = "A" -> "receiverMsgA" [] u = "B" -> "receiverMsgB" [] OTHER -> "receiverMsgC"

TokenStep(u) ==
  CASE u = "A" -> "tokenLookupA" [] u = "B" -> "tokenLookupB" [] OTHER -> "tokenLookupC"

\* the failed inserts and token lookups among the calls a create issued for
\* sender u and the receivers
CreateFails(u, receivers, f) ==
  f \cap ({"docInsert", "itemsInsert"} \cup {TokenStep(v) : v \in {u} \cup Range(receivers)})

\* a message insert that is issued again when it fails
InsertMessageRetried(acc, user, style, d, failed) ==
  [status |-> acc.status,
   attempts |-> IF failed
                THEN acc.attempts \o << [user_id |-> user, style |-> style],
                                        [user_id |-> user, style |-> style] >>
                ELSE Append(acc.attempts, [user_id |-> user, style |-> style]),
   inserted |-> Append(acc.inserted, [user_id |-> user, doc |-> d, style |-> style])]

\* a message insert whose failure escapes the handler
InsertMessageUncaught(acc, user, style, d, failed) ==
  IF acc.status # "ok" THEN acc
  ELSE [status |-> IF failed THEN "error" ELSE "ok",
        attempts |-> Append(acc.attempts, [user_id |-> user, style |-> style]),
        inserted |-> IF failed THEN acc.inserted
                     ELSE Append(acc.inserted,
                                 [user_id |-> user, doc |-> d, style |-> style])]

\* try { await insert into messages } catch { /* non-fatal */ }
InsertMessage(acc, user, style, d, failed) ==
  [status |-> acc.status,
   attempts |-> Append(acc.attempts, [user_id |-> user, style |-> style]),
   inserted |-> IF failed THEN acc.inserted
                ELSE Append(acc.inserted,
                            [user_id |-> user, doc |-> d, style |-> style])]

\* for (const receiverId of receiverIds) { try { insert } catch {} }
RECURSIVE InsertForReceivers(_, _, _, _)
InsertForReceivers(acc, receivers, d, f) ==
  IF receivers = <<>> THEN acc
  ELSE InsertForReceivers(
         InsertMessage(acc, Head(receivers), "receiver", d,
                       RecvMsgStep(Head(receivers)) \in f),
         Tail(receivers), d, f)

\* a fan-out that ends at the sender's message when its insert fails
FanOutEndsAtFailure(u, receivers, d, f) ==
  InsertForReceivers(
    InsertMessage([status |-> "ok", attempts |-> <<>>, inserted |-> <<>>],
                  u, "sender", d, "senderMsg" \in f),
    IF "senderMsg" \in f THEN <<>> ELSE receivers, d, f)

\* sender message, then one message per receiver
FanOutMessages(u, receivers, d, f) ==
  InsertForReceivers(
    InsertMessage([status |-> "ok", attempts |-> <<>>, inserted |-> <<>>],
                  u, "sender", d, "senderMsg" \in f),
    receivers, d, f)

\* ------------------------------------------------------------------------
\* POST invoices
\* ------------------------------------------------------------------------
InvoiceCreateSteps ==
  {"custRead", "docInsert", "itemsInsert", "refetch", "senderProfile", "senderMsg",
   "phoneLookup", "suffixLookup", "emailLookup",
   "receiverMsgA", "receiverMsgB", "receiverMsgC", "mailSend"}

\* recipient resolution of invoices create; the no-recipient check sits inside
\* the branch that found the customer
InvoiceRecipient(u, body, f) ==
  LET found == CustomerOf(u, body, f)
  IN  IF found = {}
      THEN [rejected |-> FALSE, phone |-> Null, email |-> Null]
      ELSE LET cust == CHOOSE c \in found : TRUE
               raw == IF cust.phone = Null THEN Null ELSE Trim(cust.phone)
               phone == IF Truthy(raw)
                        THEN OrElse(SliceLast(StripNonDigits(raw), PhoneLen), Null)
                        ELSE Null
               email == IF cust.email = Null THEN Null
                        ELSE OrElse(Trim(ToLower(cust.email)), Null)
           IN  [rejected |-> ~Truthy(phone) /\ ~Truthy(email),
                phone |-> phone, email |-> email]

\* .eq('phone', p).neq('id', sender)
ProfilesByPhoneEq(p, sender) ==
  {v \in Users : profiles[v].exists /\ v # sender /\ Eq(profiles[v].phone, p)}

\* .like('phone', `%${p}`).neq('id', sender)
ProfilesByPhoneLike(p, sender) ==
  {v \in Users : profiles[v].exists /\ v # sender /\ Like(profiles[v].phone, <<"%">> \o p)}

\* .ilike('phone', `%${p}`).neq('id', sender)
ProfilesByPhoneILike(p, sender) ==
  {v \in Users : profiles[v].exists /\ v # sender /\ ILike(profiles[v].phone, <<"%">> \o p)}

\* .ilike('email', e).neq('id', sender)
ProfilesByEmailILike(e, sender) ==
  {v \in Users : profiles[v].exists /\ v # sender /\ ILike(profiles[v].email, e)}

\* receiverIds of invoices create, in insertion order
InvoiceReceivers(rp, re, sender, f) ==
  LET byPhone == IF Truthy(rp) /\ "phoneLookup" \notin f
                 THEN InRowOrder(ProfilesByPhoneEq(rp, sender)) ELSE <<>>
      bySuffix == IF Truthy(rp) /\ byPhone = <<>> /\ "suffixLookup" \notin f
                  THEN InRowOrder(ProfilesByPhoneLike(rp, sender)) ELSE <<>>
      byEmail == IF Truthy(re) /\ "emailLookup" \notin f
                 THEN InRowOrder(ProfilesByEmailILike(re, sender)) ELSE <<>>
  IN  AddAll(AddAll(byPhone, bySuffix), byEmail)

\* customers(email) of the re-fetched invoice, trimmed and pattern-tested
InvoiceMailTo(row, f) ==
  IF "refetch" \in f \/ row.customer_id = 0 THEN Null
  ELSE LET e == customers[row.customer_id].email
       IN  IF e # Null /\ Truthy(Trim(e)) /\ EmailPattern(Trim(e)) THEN Trim(e) ELSE Null

InvoiceCreate(u, body, f) ==
  LET rcpt == InvoiceRecipient(u, body, f)
      id == Len(docs) + 1
      itemsFail == ItemsErrorThrown(body, f)
      row == DocRow("invoice", u, body, rcpt, ItemsPersisted(body, f))
      receivers == InvoiceReceivers(rcpt.phone, rcpt.email, u, f)
      out == FanOutMessages(u, receivers, id, f)
      bad == [EmptyResp EXCEPT !.op = "invoiceCreate", !.caller = u,
                               !.status = "bad_request",
                               !.explicitEmail = body.recipient_email]
  IN  /\ auth[u].registered
      /\ Len(docs) < MaxDocs
      /\ IF ~Truthy(Trim(body.number)) \/ rcpt.rejected \/ DocInsertError(body, f)
         THEN /\ resp' = bad
              /\ UNCHANGED <<docs, messages>>
         ELSE IF itemsFail
         THEN /\ docs' = RowsAfterItemsError(docs, row)
              /\ resp' = [bad EXCEPT !.persisted = id]
              /\ UNCHANGED messages
         ELSE /\ docs' = Append(docs, row)
              /\ messages' = messages \o out.inserted
              /\ resp' = [EmptyResp EXCEPT
                            !.op = "invoiceCreate", !.caller = u,
                            !.status = IF out.status = "ok" THEN "ok" ELSE "error",
                            !.doc = id, !.persisted = id, !.itemsOk = TRUE,
                            !.explicitEmail = body.recipient_email,
                            !.requested = body.items,
                            !.fails = CreateFails(u, receivers, f),
                            !.entries = {[id |-> id, type |-> row.type]},
                            !.receivers = Range(receivers),
                            !.attempts = out.attempts,
                            !.mailed = InvoiceMailTo(row, f) # Null]
      /\ UNCHANGED <<auth, profiles, customers, inProcess>>

\* ------------------------------------------------------------------------
\* POST quotations
\* ------------------------------------------------------------------------
QuotationCreateSteps ==
  {"custRead", "docInsert", "itemsInsert", "refetch", "senderProfile", "senderMsg",
   "rpc", "exactLookup", "suffixLookup", "emailLookup",
   "receiverMsgA", "receiverMsgB", "receiverMsgC",
   "tokenLookupA", "tokenLookupB", "tokenLookupC", "pushSend"}

\* recipient resolution of quotations create
QuotationRecipient(u, body, f) ==
  LET found == CustomerOf(u, body, f)
      cust == CHOOSE c \in found : TRUE
      custPhone == IF found = {} THEN Null ELSE phoneForStorage(cust.phone)
      custEmail == IF found = {} THEN Null ELSE emailForStorage(cust.email)
      manualPhone == phoneForStorage(body.recipient_phone)
      manualEmail == emailForStorage(body.recipient_email)
      phone == IF Truthy(manualPhone) THEN manualPhone ELSE custPhone
      email == IF Truthy(manualEmail) THEN manualEmail ELSE custEmail
  IN  [rejected |-> ~Truthy(phone) /\ ~Truthy(email), phone |-> phone, email |-> email]

\* rpc find_receiver_ids_by_phone(phone_10, exclude_id)
RpcFindReceiverIdsByPhone(phone10, exclude) == ProfilesByPhoneEq(phone10, exclude)

\* receiverIds of quotations create, in insertion order
QuotationReceivers(rp, re, sender, f) ==
  LET byRpc == IF Truthy(rp) /\ "rpc" \notin f
               THEN InRowOrder(RpcFindReceiverIdsByPhone(rp, sender)) ELSE <<>>
      exact == IF Truthy(rp) /\ byRpc = <<>> /\ "exactLookup" \notin f
               THEN InRowOrder(ProfilesByPhoneEq(rp, sender)) ELSE <<>>
      suffix == IF Truthy(rp) /\ byRpc = <<>> /\ "suffixLookup" \notin f
                THEN InRowOrder(ProfilesByPhoneILike(rp, sender)) ELSE <<>>
      byEmail == IF Truthy(re) /\ "emailLookup" \notin f
                 THEN InRowOrder(ProfilesByEmailILike(re, sender)) ELSE <<>>
  IN  AddAll(AddAll(AddAll(byRpc, exact), suffix), byEmail)

\* the expo_push_token a token lookup yields
TokenOf(v, f) ==
  IF TokenStep(v) \notin f /\ profiles[v].exists
  THEN profiles[v].expo_push_token ELSE Null

\* a batch with a payload for every user, token or not
PushRecipientsAll(u, receivers, d, f) ==
  [i \in 1 .. (1 + Len(receivers)) |->
     [user_id |-> (<<u>> \o receivers)[i],
      token |-> TokenOf((<<u>> \o receivers)[i], f),
      data |-> [type |-> "quotation", id |-> d]]]

\* pushRecipients: the sender's payload, then one per receiver, each only if
\* the user's token is set
PushRecipients(u, receivers, d, f) ==
  LET payload(v) == [user_id |-> v, token |-> TokenOf(v, f),
                     data |-> [type |-> "quotation", id |-> d]]
      all == [i \in 1 .. (1 + Len(receivers)) |-> payload((<<u>> \o receivers)[i])]
  IN  SelectSeq(all, LAMBDA r : Truthy(r.token))

\* /^ExponentPushToken\[.+\]$/.test(token)
isExpoPushToken(token) ==
  /\ Len(token) >= Len(ExpoPrefix) + 2
  /\ SubSeq(token, 1, Len(ExpoPrefix)) = ExpoPrefix
  /\ token[Len(token)] = "]"

\* if (pushRecipients.length > 0) await this.push.sendMany(pushRecipients):
\* whether the push service is called, and the messages it hands to Expo
SendMany(recipients, f) ==
  LET msgs == SelectSeq(recipients,
                        LAMBDA r : Truthy(r.token) /\ isExpoPushToken(r.token))
  IN  [called |-> recipients # <<>>,
       sent |-> IF "pushSend" \in f THEN <<>> ELSE msgs]

QuotationCreate(u, body, f) ==
  LET rcpt == QuotationRecipient(u, body, f)
      id == Len(docs) + 1
      itemsFail == ItemsErrorThrown(body, f)
      row == DocRow("quotation", u, body, rcpt, ItemsPersisted(body, f))
      receivers == QuotationReceivers(rcpt.phone, rcpt.email, u, f)
      push == PushRecipients(u, receivers, id, f)
      sent == SendMany(push, f)
      out == FanOutMessages(u, receivers, id, f)
      bad == [EmptyResp EXCEPT !.op = "quotationCreate", !.caller = u,
                               !.status = "bad_request",
                               !.explicitEmail = body.recipient_email]
  IN  /\ auth[u].registered
      /\ Len(docs) < MaxDocs
      /\ IF ~Truthy(Trim(body.number)) \/ rcpt.rejected \/ DocInsertError(body, f)
         THEN /\ resp' = bad
              /\ UNCHANGED <<docs, messages>>
         ELSE IF itemsFail
         THEN /\ docs' = RowsAfterItemsError(docs, row)
              /\ resp' = [bad EXCEPT !.persisted = id]
              /\ UNCHANGED messages
         ELSE /\ docs' = Append(docs, row)
              /\ messages' = messages \o out.inserted
              /\ resp' = [EmptyResp EXCEPT
                            !.op = "quotationCreate", !.caller = u,
                            !.status = IF out.status = "ok" THEN "ok" ELSE "error",
                            !.doc = id, !.persisted = id, !.itemsOk = TRUE,
                            !.explicitEmail = body.recipient_email,
                            !.requested = body.items,
                            !.fails = CreateFails(u, receivers, f),
                            !.entries = {[id |-> id, type |-> row.type]},
                            !.receivers = Range(receivers),
                            !.attempts = out.attempts,
                            !.pushed = push,
                            !.pushCalled = sent.called,
                            !.pushSent = sent.sent]
      /\ UNCHANGED <<auth, profiles, customers, inProcess>>

\* ------------------------------------------------------------------------
\* Caller identity
\* ------------------------------------------------------------------------
\* what .from('profiles').select('phone, email').eq('id', u).single() yields:
\* the row; no row (code PGRST116); or another error
ReadProfile(u, f) ==
  IF "profileRead" \in f
  THEN [found |-> FALSE, code |-> "error", phone |-> Null, email |-> Null]
  ELSE IF profiles[u].exists
  THEN [found |-> TRUE, code |-> "", phone |-> profiles[u].phone,
        email |-> profiles[u].email]
  ELSE [found |-> FALSE, code |-> "PGRST116", phone |-> Null, email |-> Null]

\* meta?.phone ?? authPhone
MetaPhone(u) == Coalesce(auth[u].meta_phone, auth[u].phone)

\* meta?.email ?? authEmail
MetaEmail(u) == Coalesce(auth[u].meta_email, auth[u].email)

\* invoices list: profile?.phone ?? meta?.phone
\*                profile?.email ?? req.user.email ?? meta?.email ?? ''
InvoiceListIdentity(u, profile) ==
  [phone |-> normalizePhone(Coalesce(profile.phone, auth[u].meta_phone)),
   email |-> Trim(ToLower(Coalesce(Coalesce(Coalesce(profile.email, auth[u].email),
                                            auth[u].meta_email), <<>>)))]

\* invoices get and quotations get: profile?.phone ?? meta?.phone
\*                                  profile?.email ?? req.user.email ?? ''
GetIdentity(u, profile) ==
  [phone |-> normalizePhone(Coalesce(profile.phone, auth[u].meta_phone)),
   email |-> normalizeEmail(Coalesce(Coalesce(profile.email, auth[u].email), <<>>))]

\* quotations list: metaPhone || authPhone || profilePhone || ''
\*                  authEmail || metaEmail || profileEmail || ''
QuotationListIdentity(u, profile) ==
  [phone |-> normalizePhone(
               OrElse(OrElse(OrElse(MetaPhone(u), auth[u].phone), profile.phone), <<>>)),
   email |-> normalizeEmail(
               OrElse(OrElse(OrElse(auth[u].email, MetaEmail(u)), profile.email), <<>>))]

\* ------------------------------------------------------------------------
\* GET invoices
\* ------------------------------------------------------------------------
DocIds(kind) == {i \in DOMAIN docs : docs[i].kind = kind /\ ~docs[i].deleted}

\* .eq('user_id', u)
SentEntries(kind, u) ==
  {[id |-> i, type |-> docs[i].type] : i \in {j \in DocIds(kind) : docs[j].user_id = u}}

Received(ids) == {[id |-> i, type |-> "received"] : i \in ids}

\* .order('created_at', { ascending: false }): ids ascend with creation
RECURSIVE Descending(_)
Descending(ids) ==
  IF ids = {} THEN <<>>
  ELSE LET top == CHOOSE i \in ids : \A j \in ids : j <= i
       IN  <<top>> \o Descending(ids \ {top})

\* both results appended without a Map
ReceivedByIdAppended(byPhone, byEmail) == Descending(byPhone) \o Descending(byEmail)

\* receivedById.set(String(row.id), ...) for the rows of byPhone, then of
\* byEmail; Array.from(receivedById.values())
ReceivedById(byPhone, byEmail) == AddAll(Descending(byPhone), Descending(byEmail))

\* .sort((a, b) => b.created_at.localeCompare(a.created_at))
RECURSIVE SortByCreated(_)
SortByCreated(rows) ==
  IF rows = <<>> THEN <<>>
  ELSE LET top == CHOOSE i \in DOMAIN rows :
                    \A j \in DOMAIN rows :
                      rows[j].id < rows[i].id \/ (rows[j].id = rows[i].id /\ j >= i)
       IN  <<rows[top]>> \o
             SortByCreated(SubSeq(rows, 1, top - 1) \o SubSeq(rows, top + 1, Len(rows)))

\* [...sent, ...received].sort(...)
ListRows(kind, u, received) ==
  LET sent == Descending({i \in DocIds(kind) : docs[i].user_id = u})
  IN  SortByCreated([i \in DOMAIN sent |-> [id |-> sent[i], type |-> docs[sent[i]].type]]
                    \o [i \in DOMAIN received |-> [id |-> received[i], type |-> "received"]])

\* .neq('user_id', u).eq('recipient_phone', myPhone)
InvoicesByPhone(u, myPhone) ==
  {i \in DocIds("invoice") :
     docs[i].user_id # u /\ Eq(docs[i].recipient_phone, myPhone)}

\* .neq('user_id', u).eq('recipient_email', myEmail)
InvoicesByEmail(u, myEmail) ==
  {i \in DocIds("invoice") :
     docs[i].user_id # u /\ Eq(docs[i].recipient_email, myEmail)}

\* received of invoices list
InvoiceReceivedById(u, f) ==
  LET me == InvoiceListIdentity(u, ReadProfile(u, f))
      byPhone == IF Truthy(me.phone) /\ "byPhoneQuery" \notin f
                 THEN InvoicesByPhone(u, me.phone) ELSE {}
      byEmail == IF Truthy(me.email) /\ "byEmailQuery" \notin f
                 THEN InvoicesByEmail(u, me.email) ELSE {}
  IN  ReceivedById(byPhone, byEmail)

\* the ids of receivedById
InvoiceListReceived(u, f) == Range(InvoiceReceivedById(u, f))

InvoiceList(u, f) ==
  LET me == InvoiceListIdentity(u, ReadProfile(u, f))
  IN  /\ auth[u].registered
      /\ resp' = IF "sentQuery" \in f
                 THEN [EmptyResp EXCEPT !.op = "invoiceList", !.caller = u,
                                        !.status = "bad_request", !.fails = f]
                 ELSE [EmptyResp EXCEPT
                         !.op = "invoiceList", !.caller = u, !.status = "ok",
                         !.entries = SentEntries("invoice", u)
                                       \cup Received(InvoiceListReceived(u, f)),
                         !.rows = ListRows("invoice", u, InvoiceReceivedById(u, f)),
                         !.myPhone = me.phone, !.myEmail = me.email,
                         !.rowBefore = profiles[u], !.fails = f]
      /\ UNCHANGED <<auth, profiles, customers, docs, messages, inProcess>>

\* ------------------------------------------------------------------------
\* GET quotations
\* ------------------------------------------------------------------------
\* initPhone / updates.phone
SyncPhone(u) ==
  IF Truthy(MetaPhone(u)) /\ Len(normalizePhone(MetaPhone(u))) >= PhoneLen
  THEN normalizePhone(MetaPhone(u)) ELSE Null

\* initEmail
InitEmail(u) ==
  IF Truthy(MetaEmail(u)) \/ Truthy(auth[u].email)
  THEN normalizeEmail(OrElse(MetaEmail(u), auth[u].email)) ELSE Null

\* if (!profile && profileErr?.code === 'PGRST116')
NeedsCreate(profile) == ~profile.found /\ profile.code = "PGRST116"

\* !storedPhone && metaPhone && normalizePhone(metaPhone).length >= 10
NeedsPhoneSync(u, profile) == ~Truthy(profile.phone) /\ SyncPhone(u) # Null

\* !storedEmail && (metaEmail || authEmail)
NeedsEmailSync(u, profile) ==
  ~Truthy(profile.email) /\ (Truthy(MetaEmail(u)) \/ Truthy(auth[u].email))

\* a repair write whose failure ends the request
CatchRethrow(attempted, failed) == IF attempted /\ failed THEN "error" ELSE "ok"

\* try { await <repair write> } catch { /* non-fatal */ }
CatchNonFatal(attempted, failed) == "ok"

\* the lazy profile repair of quotations list, from the profile the handler
\* read and the row the table holds when its writes arrive: the profile the
\* handler goes on with, the row it leaves in the table, and the number of
\* writes it issued
RepairProfile(u, read, row, f) ==
  LET create == NeedsCreate(read)
      created == create /\ "profileUpsert" \notin f
      row1 == IF created
              THEN [exists |-> TRUE, phone |-> SyncPhone(u), email |-> InitEmail(u),
                    expo_push_token |-> row.expo_push_token]
              ELSE row
      p1 == IF created
            THEN [found |-> TRUE, code |-> "", phone |-> row1.phone, email |-> row1.email]
            ELSE read
      syncPhone == NeedsPhoneSync(u, p1)
      syncEmail == NeedsEmailSync(u, p1)
      update == syncPhone \/ syncEmail
      updated == update /\ "profileUpdate" \notin f /\ row1.exists
      row2 == IF updated
              THEN [row1 EXCEPT
                      !.phone = IF syncPhone THEN normalizePhone(MetaPhone(u)) ELSE @,
                      !.email = IF syncEmail
                                THEN OrElse(normalizeEmail(OrElse(MetaEmail(u), auth[u].email)),
                                            Null)
                                ELSE @]
              ELSE row1
      p2 == IF updated
            THEN [found |-> TRUE, code |-> "", phone |-> row2.phone, email |-> row2.email]
            ELSE p1
  IN  [profile |-> p2, row |-> row2,
       writes |-> (IF create THEN 1 ELSE 0) + (IF update THEN 1 ELSE 0),
       status |-> IF /\ CatchNonFatal(create, "profileUpsert" \in f) = "ok"
                     /\ CatchNonFatal(update, "profileUpdate" \in f \/ ~row1.exists) = "ok"
                  THEN "ok" ELSE "error"]

\* the repair as one request runs it: on the profile its own read returns
ResolveProfile(u, f) == RepairProfile(u, ReadProfile(u, f), profiles[u], f)

\* .neq('user_id', u).or(`recipient_phone.eq.${p},recipient_phone.like.%${p}`)
QuotationsByPhone(u, myPhone) ==
  {i \in DocIds("quotation") :
     /\ docs[i].user_id # u
     /\ \/ Eq(docs[i].recipient_phone, myPhone)
        \/ Like(docs[i].recipient_phone, <<"%">> \o myPhone)}

\* .neq('user_id', u).ilike('recipient_email', myEmail)
QuotationsByEmail(u, myEmail) ==
  {i \in DocIds("quotation") :
     docs[i].user_id # u /\ ILike(docs[i].recipient_email, myEmail)}

\* received of quotations list
QuotationReceivedFor(u, profile, f) ==
  LET me == QuotationListIdentity(u, profile)
      byPhone == IF Truthy(me.phone) /\ "byPhoneQuery" \notin f
                 THEN QuotationsByPhone(u, me.phone) ELSE {}
      byEmail == IF Truthy(me.email) /\ "byEmailQuery" \notin f
                 THEN QuotationsByEmail(u, me.email) ELSE {}
  IN  ReceivedById(byPhone, byEmail)

QuotationReceivedById(u, f) == QuotationReceivedFor(u, ResolveProfile(u, f).profile, f)

\* the ids of receivedById
QuotationListReceived(u, f) == Range(QuotationReceivedById(u, f))

QuotationList(u, f) ==
  LET res == ResolveProfile(u, f)
      me == QuotationListIdentity(u, res.profile)
  IN  /\ auth[u].registered
      /\ IF "sentQuery" \in f
         THEN /\ resp' = [EmptyResp EXCEPT !.op = "quotationList", !.caller = u,
                                           !.status = "bad_request", !.fails = f]
              /\ UNCHANGED profiles
         ELSE /\ profiles' = [profiles EXCEPT ![u] = res.row]
              /\ resp' = [EmptyResp EXCEPT
                            !.op = "quotationList", !.caller = u, !.status = res.status,
                            !.entries = SentEntries("quotation", u)
                                          \cup Received(QuotationListReceived(u, f)),
                            !.rows = ListRows("quotation", u,
                                              QuotationReceivedById(u, f)),
                            !.myPhone = me.phone, !.myEmail = me.email,
                            !.writes = res.writes,
                            !.rowBefore = profiles[u], !.fails = f]
      /\ UNCHANGED <<auth, customers, docs, messages, inProcess>>

\* GET quotations up to the await of its profile read
ListProfileRead(u) ==
  /\ auth[u].registered
  /\ \A p \in pending : p.u # u
  /\ Cardinality(pending) < MaxPending
  /\ pending' = pending \cup {[op |-> "list", u |-> u, read |-> ReadProfile(u, {})]}
  /\ resp' = [EmptyResp EXCEPT !.op = "quotationList", !.caller = u,
                               !.status = "reading"]
  /\ UNCHANGED <<tables, otpStore, resetTokenStore, paymentSessionStore, timers,
                 now, hist>>

\* GET quotations from its profile read on: the repair writes land on the
\* row the table holds by now, then the received queries and the response
ListProfileRepair(p) ==
  LET u == p.u
      res == RepairProfile(u, p.read, profiles[u], {})
      me == QuotationListIdentity(u, res.profile)
      received == QuotationReceivedFor(u, res.profile, {})
  IN  /\ p \in pending
      /\ p.op = "list"
      /\ pending' = pending \ {p}
      /\ profiles' = [profiles EXCEPT ![u] = res.row]
      /\ resp' = [EmptyResp EXCEPT
                    !.op = "quotationList", !.caller = u, !.status = res.status,
                    !.entries = SentEntries("quotation", u) \cup Received(Range(received)),
                    !.rows = ListRows("quotation", u, received),
                    !.myPhone = me.phone, !.myEmail = me.email,
                    !.writes = res.writes,
                    !.rowBefore = profiles[u]]
      /\ UNCHANGED <<auth, customers, docs, messages, otpStore, resetTokenStore,
                     paymentSessionStore, timers, now, hist>>

\* ------------------------------------------------------------------------
\* GET invoices/:id and GET quotations/:id
\* ------------------------------------------------------------------------
\* (myPhone && rPhone && myPhone === rPhone) || (myEmail && rEmail && myEmail === rEmail)
IsRecipient(me, rPhone, rEmail) ==
  \/ Truthy(me.phone) /\ Truthy(rPhone) /\ me.phone = rPhone
  \/ Truthy(me.email) /\ Truthy(rEmail) /\ me.email = rEmail

\* rEmail of invoices get: (inv.recipient_email ?? '').toLowerCase().trim()
InvoiceREmail(e) == Trim(ToLower(Coalesce(e, <<>>)))

NotFound(op, u) == [EmptyResp EXCEPT !.op = op, !.caller = u, !.status = "not_found"]

GetIds == 1 .. (MaxDocs + 1)

\* isRecipient of get-by-id for a document of another user
GetIsRecipient(kind, u, id, f) ==
  LET me == GetIdentity(u, ReadProfile(u, f))
      rPhone == normalizePhone(docs[id].recipient_phone)
      rEmail == IF kind = "invoice" THEN InvoiceREmail(docs[id].recipient_email)
                ELSE normalizeEmail(docs[id].recipient_email)
  IN  IsRecipient(me, rPhone, rEmail)

DocGet(kind, op, u, id, f) ==
  LET found == "docRead" \notin f /\ id \in DocIds(kind)
      me == GetIdentity(u, ReadProfile(u, f))
  IN  /\ auth[u].registered
      /\ resp' = IF ~found THEN [NotFound(op, u) EXCEPT !.sought = id]
                 ELSE IF docs[id].user_id = u
                 THEN [EmptyResp EXCEPT !.op = op, !.caller = u, !.status = "ok",
                                        !.doc = id,
                                        !.entries = {[id |-> id, type |-> docs[id].type]}]
                 ELSE IF ~GetIsRecipient(kind, u, id, f)
                 THEN [NotFound(op, u) EXCEPT !.sought = id]
                 ELSE [EmptyResp EXCEPT !.op = op, !.caller = u, !.status = "ok",
                                        !.doc = id,
                                        !.entries = {[id |-> id, type |-> "received"]},
                                        !.myPhone = me.phone, !.myEmail = me.email]
      /\ UNCHANGED <<auth, profiles, customers, docs, messages, inProcess>>

InvoiceGet(u, id, f) == DocGet("invoice", "invoiceGet", u, id, f)

QuotationGet(u, id, f) == DocGet("quotation", "quotationGet", u, id, f)

\* a lookup of the invoice that leaves out the user_id filter
AnyInvoice(u, id) == id \in DocIds("invoice")

\* the invoice the filters .eq('id', id).eq('user_id', u) select
OwnInvoice(u, id) == id \in DocIds("invoice") /\ docs[id].user_id = u

\* ------------------------------------------------------------------------
\* PATCH invoices/:id
\* ------------------------------------------------------------------------
\* .update(body).eq('id', id).eq('user_id', u).select().single(): every column
\* the request body names is set
InvoiceUpdate(u, id, body) ==
  LET row == [docs[id] EXCEPT
                !.type = IF body.type # "" THEN body.type ELSE @,
                !.recipient_phone = IF body.recipient_phone # Null
                                    THEN body.recipient_phone ELSE @]
  IN  /\ auth[u].registered
      /\ IF OwnInvoice(u, id)
         THEN /\ docs' = [docs EXCEPT ![id] = row]
              /\ resp' = [EmptyResp EXCEPT !.op = "invoiceUpdate", !.caller = u,
                                           !.status = "ok", !.doc = id,
                                           !.entries = {[id |-> id, type |-> row.type]}]
         ELSE /\ UNCHANGED docs
              /\ resp' = [EmptyResp EXCEPT !.op = "invoiceUpdate", !.caller = u,
                                           !.status = "bad_request", !.sought = id]
      /\ UNCHANGED <<auth, profiles, customers, messages, inProcess>>

\* PATCH bodies; type "" and recipient_phone Null stand for an absent field
UpdateBodies ==
  { [type |-> "sent",     recipient_phone |-> Null],
    [type |-> "received", recipient_phone |-> Null] }

StoreUpdateBodies ==
  { [type |-> "sent", recipient_phone |-> Null],
    [type |-> "",     recipient_phone |-> PhoneShort] }

\* ------------------------------------------------------------------------
\* DELETE invoices/:id, POST invoices/:id/items, DELETE invoices/:id/items/:itemId
\* ------------------------------------------------------------------------
\* .delete().eq('id', id).eq('user_id', u)
InvoiceDelete(u, id) ==
  /\ auth[u].registered
  /\ docs' = IF OwnInvoice(u, id)
             THEN [docs EXCEPT ![id].deleted = TRUE] ELSE docs
  /\ resp' = [EmptyResp EXCEPT !.op = "invoiceDelete", !.caller = u, !.status = "ok",
                               !.sought = id]
  /\ UNCHANGED <<auth, profiles, customers, messages, inProcess>>

InvoiceAddItem(u, id) ==
  /\ auth[u].registered
  /\ id \in DOMAIN docs => docs[id].items < MaxItems
  /\ IF OwnInvoice(u, id)
     THEN /\ docs' = [docs EXCEPT ![id].items = @ + 1]
          /\ resp' = [EmptyResp EXCEPT !.op = "addItem", !.caller = u,
                                       !.status = "ok", !.doc = id]
     ELSE /\ UNCHANGED docs
          /\ resp' = [NotFound("addItem", u) EXCEPT !.sought = id]
  /\ UNCHANGED <<auth, profiles, customers, messages, inProcess>>

\* .delete().eq('id', itemId).eq('invoice_id', id); the items of an invoice are
\* numbered from 1
InvoiceRemoveItem(u, id, itemId) ==
  /\ auth[u].registered
  /\ IF OwnInvoice(u, id)
     THEN /\ docs' = IF itemId <= docs[id].items
                     THEN [docs EXCEPT ![id].items = @ - 1] ELSE docs
          /\ resp' = [EmptyResp EXCEPT !.op = "removeItem", !.caller = u,
                                       !.status = "ok", !.doc = id]
     ELSE /\ UNCHANGED docs
          /\ resp' = [NotFound("removeItem", u) EXCEPT !.sought = id]
  /\ UNCHANGED <<auth, profiles, customers, messages, inProcess>>

\* ------------------------------------------------------------------------
\* POST payments/callback
\* ------------------------------------------------------------------------
StatusCodes == {"0000", "0300"}

\* updateInvoiceStatus: .from('invoices').update({ status }).eq('id', invoiceId)
UpdateInvoiceStatus(id, status) ==
  IF id \in DocIds("invoice") THEN [docs EXCEPT ![id].status = status] ELSE docs

\* the decrypted callback names invoice id (udf1) and statusCode
PaymentCallback(id, statusCode) ==
  /\ docs' = IF statusCode = "0000" THEN UpdateInvoiceStatus(id, "paid") ELSE docs
  /\ resp' = [EmptyResp EXCEPT !.op = "paymentCallback", !.status = "ok", !.doc = id]
  /\ UNCHANGED <<auth, profiles, customers, messages, inProcess>>

\* ------------------------------------------------------------------------
\* One-time codes and reset tokens (OtpService and its auth endpoints)
\* ------------------------------------------------------------------------
MaxIssues == 2

\* generateCode(): the least and the greatest six-digit code
CodeMin == <<"1","0","0","0","0","0">>
CodeMax == <<"9","9","9","9","9","9">>
Codes == {CodeMin, CodeMax}

\* crypto.randomBytes(32).toString('hex'): a value never drawn before
Token1 == <<"t","1">>
ResetTokens == {Token1}

EmailLower == <<"c","@","x",".","c","o">>

\* request bodies of the one-time-code endpoints: codes are asked for
\* "C@x.co " and verified for "c@x.co"
SendOtpInputs == {EmailMixed, EmailBad}
VerifyBodies ==
  [email : {EmailLower}, code : {CodeMin, <<" ">> \o CodeMax, <<" ">>}]

\* the same with a second address
SendOtpInputs2 == SendOtpInputs \cup {EmailA}
VerifyBodies2 == VerifyBodies \cup {[email |-> EmailA, code |-> CodeMin]}
ResetTokenInputs == ResetTokens \cup {<<"t","0">>}

\* email.trim().toLowerCase()
OtpKey(email) == ToLower(Trim(email))

\* cleanup(): drops the entries of a store that expired before t
Cleanup(store, t) ==
  [k \in {x \in DOMAIN store : ~(store[x].expiresAt < t)} |-> store[k]]

\* this.otpStore.set(normalized, { code, expiresAt })
OtpIssueKeepOld(store, normalized, entry) ==
  IF MapHas(store, normalized) THEN store ELSE MapSet(store, normalized, entry)

OtpIssue(store, normalized, entry) == MapSet(store, normalized, entry)

\* the index in hist.codes of the code last issued for an address, 0 if none
LastIssue(h, normalized) ==
  LET s == {i \in DOMAIN h.codes : h.codes[i].email = normalized}
  IN  IF s = {} THEN 0 ELSE CHOOSE i \in s : \A j \in s : j <= i

\* POST auth/send-otp, up to the await of sendMail when a transporter is
\* configured (smtp), to its end when the code is only logged
SendOtp(emailIn, smtp) ==
  LET email == Trim(emailIn)
      normalized == OtpKey(email)
  IN  /\ IF ~Truthy(email) \/ ~EmailPattern(email)
         THEN /\ resp' = [EmptyResp EXCEPT !.op = "sendOtp", !.status = "bad_request",
                                           !.email = emailIn]
              /\ UNCHANGED <<otpStore, resetTokenStore, pending, hist>>
         ELSE IF ~EmailPattern(normalized)
         THEN /\ otpStore' = Cleanup(otpStore, now)
              /\ resetTokenStore' = Cleanup(resetTokenStore, now)
              /\ resp' = [EmptyResp EXCEPT !.op = "sendOtp", !.status = "bad_request",
                                           !.email = emailIn]
              /\ UNCHANGED <<pending, hist>>
         ELSE \E code \in Codes :
              /\ Len(hist.codes) < MaxIssues
              /\ otpStore' = OtpIssue(Cleanup(otpStore, now), normalized,
                                      [code |-> code, expiresAt |-> now + OtpTtl])
              /\ resetTokenStore' = Cleanup(resetTokenStore, now)
              /\ pending' = IF ~smtp THEN pending
                            ELSE pending \cup
                                   {[op |-> "sendMail", to |-> normalized,
                                     code |-> code, serial |-> Len(hist.codes) + 1]}
              /\ hist' = [hist EXCEPT !.codes =
                            Append(@, [email |-> normalized, code |-> code, at |-> now])]
              /\ resp' = [EmptyResp EXCEPT !.op = "sendOtp",
                            !.status = IF smtp THEN "sending" ELSE "ok",
                            !.email = emailIn, !.code = code]
      /\ UNCHANGED <<tables, paymentSessionStore, timers, now>>

\* the await of sendMail returns or throws: the response of POST auth/send-otp
SendMailDone(p, ok) ==
  /\ p \in pending
  /\ p.op = "sendMail"
  /\ pending' = pending \ {p}
  /\ resp' = [EmptyResp EXCEPT !.op = "sendOtp",
                               !.status = IF ok THEN "ok" ELSE "bad_request",
                               !.email = p.to, !.code = p.code]
  /\ UNCHANGED <<tables, otpStore, resetTokenStore, paymentSessionStore, timers,
                 now, hist>>

\* the checks verifyOtp and verifyOtpOnly make before they delete the code
CheckOtp(store, normalized, code, t) ==
  IF ~MapHas(store, normalized) THEN "no_otp"
  ELSE IF t > store[normalized].expiresAt THEN "expired"
  ELSE IF store[normalized].code # Trim(code) THEN "invalid"
  ELSE "accepted"

\* the code store after verifyOtp or verifyOtpOnly
OtpAfterCheckKept(store, normalized, outcome) ==
  IF outcome = "expired" THEN MapDelete(store, normalized) ELSE store

OtpAfterCheck(store, normalized, outcome) ==
  IF outcome \in {"expired", "accepted"} THEN MapDelete(store, normalized) ELSE store

\* history: which issued code was accepted, and whether after its expiry
Accepted(h, normalized) ==
  LET serial == LastIssue(h, normalized)
  IN  [h EXCEPT !.accepted =
         Append(@, [serial |-> serial,
                    late |-> serial = 0 \/ now > h.codes[serial].at + OtpTtl])]

\* POST auth/verify-otp
VerifyOtp(emailIn, codeIn) ==
  LET email == Trim(emailIn)
      code == Trim(codeIn)
      normalized == OtpKey(email)
      outcome == CheckOtp(otpStore, normalized, code, now)
      answer == [EmptyResp EXCEPT !.op = "verifyOtp", !.email = emailIn,
                                  !.code = codeIn]
  IN  /\ IF ~Truthy(email) \/ ~Truthy(code)
         THEN /\ resp' = [answer EXCEPT !.status = "bad_request", !.otp = "required"]
              /\ UNCHANGED <<otpStore, resetTokenStore, hist>>
         ELSE IF outcome # "accepted"
         THEN /\ otpStore' = OtpAfterCheck(otpStore, normalized, outcome)
              /\ resp' = [answer EXCEPT !.status = "bad_request", !.otp = outcome]
              /\ UNCHANGED <<resetTokenStore, hist>>
         ELSE \E resetToken \in
                   ResetTokens \ {hist.tokens[i].token : i \in DOMAIN hist.tokens} :
              /\ otpStore' = OtpAfterCheck(otpStore, normalized, outcome)
              /\ resetTokenStore' =
                   MapSet(resetTokenStore, resetToken,
                          [email |-> normalized, expiresAt |-> now + ResetTokenTtl])
              /\ hist' = [Accepted(hist, normalized) EXCEPT !.tokens =
                            Append(@, [token |-> resetToken, at |-> now])]
              /\ resp' = [answer EXCEPT !.status = "ok", !.otp = outcome,
                                        !.token = resetToken]
      /\ UNCHANGED <<tables, paymentSessionStore, timers, now, pending>>

\* POST auth/login-with-otp; the sign-in that follows the check succeeds or not
LoginWithOtp(emailIn, codeIn, signedIn) ==
  LET email == ToLower(Trim(emailIn))
      code == Trim(codeIn)
      normalized == OtpKey(email)
      outcome == CheckOtp(otpStore, normalized, code, now)
      answer == [EmptyResp EXCEPT !.op = "loginWithOtp", !.email = emailIn,
                                  !.code = codeIn]
  IN  /\ IF ~Truthy(email) \/ ~Truthy(code)
         THEN /\ resp' = [answer EXCEPT !.status = "bad_request", !.otp = "required"]
              /\ UNCHANGED <<otpStore, hist>>
         ELSE /\ otpStore' = OtpAfterCheck(otpStore, normalized, outcome)
              /\ hist' = IF outcome = "accepted" THEN Accepted(hist, normalized)
                         ELSE hist
              /\ resp' = [answer EXCEPT !.otp = outcome,
                            !.status = IF outcome = "accepted" /\ signedIn
                                       THEN "ok" ELSE "bad_request"]
      /\ UNCHANGED <<tables, resetTokenStore, paymentSessionStore, timers, now, pending>>

\* history: whether a token is older than ResetTokenTtl
TokenLate(h, token) ==
  \A i \in DOMAIN h.tokens :
    h.tokens[i].token = token => now > h.tokens[i].at + ResetTokenTtl

\* consumeResetToken(token)
CheckResetToken(store, token, t) ==
  IF ~MapHas(store, token) THEN "no_token"
  ELSE IF t > store[token].expiresAt THEN "expired"
  ELSE "consumed"

\* POST auth/reset-password; the password update that follows succeeds or not
ResetPassword(resetToken, newPasswordOk, updated) ==
  LET outcome == CheckResetToken(resetTokenStore, resetToken, now)
      answer == [EmptyResp EXCEPT !.op = "resetPassword", !.token = resetToken]
  IN  /\ IF ~Truthy(resetToken) \/ ~newPasswordOk
         THEN /\ resp' = [answer EXCEPT !.status = "bad_request", !.otp = "required"]
              /\ UNCHANGED <<resetTokenStore, hist>>
         ELSE /\ resetTokenStore' =
                   IF outcome = "no_token" THEN resetTokenStore
                   ELSE MapDelete(resetTokenStore, resetToken)
              /\ hist' = IF outcome = "consumed"
                         THEN [hist EXCEPT !.consumed =
                                 Append(@, [token |-> resetToken,
                                            late |-> TokenLate(hist, resetToken)])]
                         ELSE hist
              /\ resp' = [answer EXCEPT !.otp = outcome,
                            !.email = IF outcome = "consumed"
                                      THEN resetTokenStore[resetToken].email ELSE Null,
                            !.status = IF outcome = "consumed" /\ updated
                                       THEN "ok" ELSE "bad_request"]
      /\ UNCHANGED <<tables, otpStore, paymentSessionStore, timers, now, pending>>

\* time passes; a timer that is due runs before the clock moves on
Tick ==
  /\ now < MaxTime
  /\ \A t \in timers : t.due > now
  /\ now' = now + 1
  /\ UNCHANGED <<tables, otpStore, resetTokenStore, paymentSessionStore, timers,
                 pending, hist, resp>>

\* the requests that issue and check codes, and the mails on their way
NextOtp ==
  \/ \E emailIn \in SendOtpInputs2 : \E smtp \in BOOLEAN : SendOtp(emailIn, smtp)
  \/ \E p \in pending : \E ok \in BOOLEAN : SendMailDone(p, ok)
  \/ \E body \in VerifyBodies2 : VerifyOtp(body.email, body.code)
  \/ \E body \in VerifyBodies2 : \E signedIn \in BOOLEAN :
       LoginWithOtp(body.email, body.code, signedIn)

\* codes and reset tokens over time, without a mail transporter
NextExpiry ==
  \/ \E emailIn \in SendOtpInputs : SendOtp(emailIn, FALSE)
  \/ \E body \in VerifyBodies : VerifyOtp(body.email, body.code)
  \/ \E body \in VerifyBodies : \E signedIn \in BOOLEAN :
       LoginWithOtp(body.email, body.code, signedIn)
  \/ \E resetToken \in ResetTokenInputs : \E newPasswordOk, updated \in BOOLEAN :
       ResetPassword(resetToken, newPasswordOk, updated)
  \/ Tick

\* ------------------------------------------------------------------------
\* Payment sessions (POST payments/create, GET payments/go/:sid)
\* ------------------------------------------------------------------------
MaxReads == 3

\* Math.random().toString(36).slice(2, 12): a value never drawn before
Sid1 == <<"s","1">>
Sid2 == <<"s","2">>
Sids == {Sid1, Sid2}

\* the sid of a request: one that was handed out, or one that never was
SidInputs == Sids \cup {<<"s","0">>}

InvoiceId1 == <<"1">>

\* bodies of POST payments/create; Null and 0 stand for a missing field
PaymentBodies ==
  { [invoiceId |-> InvoiceId1, amount |-> 100],
    [invoiceId |-> InvoiceId1, amount |-> 0],
    [invoiceId |-> Null,       amount |-> 100] }

\* { paymentUrl, encData, clientCode }: encData carries the invoice id
PaymentSession(body) == <<"encData", body.invoiceId>>

\* the timers phase of the event loop has run every callback that is due
\* before a request handler runs
TimersRun == \A t \in timers : t.due > now

\* setTimeout(() => paymentSessionStore.delete(sid), 5 * 60 * 1000)
SetTimeoutNever(pendingTimers, sid, t) == pendingTimers

SetTimeout(pendingTimers, sid, t) ==
  pendingTimers \cup {[sid |-> sid, due |-> t + SessionTtl]}

\* POST payments/create
PaymentCreate(u, body) ==
  /\ TimersRun
  /\ auth[u].registered
  /\ IF ~Truthy(body.invoiceId) \/ body.amount = 0
     THEN /\ resp' = [EmptyResp EXCEPT !.op = "paymentCreate", !.caller = u,
                                       !.status = "bad_request"]
          /\ UNCHANGED <<paymentSessionStore, timers, hist>>
     ELSE \E sid \in Sids \ {hist.sids[i].sid : i \in DOMAIN hist.sids} :
          /\ paymentSessionStore' = MapSet(paymentSessionStore, sid, PaymentSession(body))
          /\ timers' = SetTimeout(timers, sid, now)
          /\ hist' = [hist EXCEPT !.sids = Append(@, [sid |-> sid, at |-> now])]
          /\ resp' = [EmptyResp EXCEPT !.op = "paymentCreate", !.caller = u,
                                       !.status = "ok", !.sid = sid,
                                       !.session = PaymentSession(body)]
  /\ UNCHANGED <<tables, otpStore, resetTokenStore, now, pending>>

\* the deferred deletion runs
TimerFire(t) ==
  /\ t \in timers
  /\ t.due <= now
  /\ paymentSessionStore' = MapDelete(paymentSessionStore, t.sid)
  /\ timers' = timers \ {t}
  /\ UNCHANGED <<tables, otpStore, resetTokenStore, now, pending, hist, resp>>

\* history: whether five minutes have passed since a sid was handed out
SessionLate(h, sid) ==
  \A i \in DOMAIN h.sids : h.sids[i].sid = sid => now >= h.sids[i].at + SessionTtl

\* getSessionForRedirect(sid)
GetSessionForRedirect(store, sid) ==
  IF MapHas(store, sid) THEN MapDelete(store, sid) ELSE store

\* GET payments/go/:sid
RedirectToSabPaisa(sid) ==
  /\ TimersRun
  /\ Len(hist.redeemed) < MaxReads
  /\ paymentSessionStore' = GetSessionForRedirect(paymentSessionStore, sid)
  /\ hist' = [hist EXCEPT !.redeemed =
                Append(@, [sid |-> sid, found |-> MapHas(paymentSessionStore, sid),
                           issued |-> \E i \in DOMAIN hist.sids : hist.sids[i].sid = sid,
                           late |-> SessionLate(hist, sid)])]
  /\ resp' = [EmptyResp EXCEPT !.op = "redirectToSabPaisa", !.sid = sid,
                 !.status = IF MapHas(paymentSessionStore, sid) THEN "ok"
                            ELSE "not_found",
                 !.session = IF MapHas(paymentSessionStore, sid)
                             THEN paymentSessionStore[sid] ELSE Null]
  /\ UNCHANGED <<tables, otpStore, resetTokenStore, timers, now, pending>>

\* payment sessions: creation, redirects, deferred deletions and the clock
NextSession ==
  \/ \E u \in Registered0 : \E body \in PaymentBodies : PaymentCreate(u, body)
  \/ \E sid \in SidInputs : RedirectToSabPaisa(sid)
  \/ \E t \in timers : TimerFire(t)
  \/ Tick

\* ------------------------------------------------------------------------
\* Specifications
\* ------------------------------------------------------------------------
InvoiceListFailures == {{}, {"sentQuery"}, {"profileRead"}, {"byPhoneQuery", "byEmailQuery"}}

QuotationListFailures ==
  {{}, {"sentQuery"}, {"profileRead"}, {"profileUpsert"}, {"profileUpdate"},
   {"byPhoneQuery", "byEmailQuery"}}

GetFailures == {{}, {"docRead"}, {"profileRead"}}

Accounts(senders, edits) ==
  \/ \E u \in Users : \E body \in RegisterBodies(u) :
       \E f \in FailureCases(RegisterSteps) : Register(u, body, f)
  \/ \E u \in Users : \E body \in edits[u] : UpdateMe(u, body)
  \/ \E u \in senders : \E body \in CustomerBodies : CustomerCreate(u, body)

\* the users that issue create requests in the view specification
ViewSenders == {"A"}

\* the create pipeline under every failure case
NextCreate ==
  \/ Accounts(Senders, [u \in Users |-> TokenEdits(u)])
  \/ \E u \in Senders : \E body \in CreateBodies :
       \E f \in FailureCases(InvoiceCreateSteps) : InvoiceCreate(u, body, f)
  \/ \E u \in Senders : \E body \in CreateBodies :
       \E f \in FailureCases(QuotationCreateSteps) : QuotationCreate(u, body, f)

\* the received-documents view over documents created without a failure
NextView ==
  \/ Accounts(ViewSenders, [u \in Users |-> PhoneEdits(u)])
  \/ \E u \in ViewSenders : \E body \in ViewBodies : InvoiceCreate(u, body, {})
  \/ \E u \in ViewSenders : \E body \in ViewBodies : QuotationCreate(u, body, {})
  \/ \E u \in ViewSenders : \E id \in GetIds : \E body \in UpdateBodies :
       InvoiceUpdate(u, id, body)
  \/ \E u \in Users : \E f \in InvoiceListFailures : InvoiceList(u, f)
  \/ \E u \in Users : \E f \in QuotationListFailures : QuotationList(u, f)
  \/ \E u \in Users : \E id \in GetIds : \E f \in GetFailures : InvoiceGet(u, id, f)
  \/ \E u \in Users : \E id \in GetIds : \E f \in GetFailures : QuotationGet(u, id, f)

\* ------------------------------------------------------------------------
\* recipient.util called on its own
\* ------------------------------------------------------------------------
MaxEmailLen == 6

\* a number written with country code, spaces and separators, and longer than
\* a mobile number
PhoneText ==
  <<"+","9","1"," ","9","8","7","6","5","-","4","3","2","1","0"," ","x","7","7">>

\* null, the empty string and every stretch of PhoneText
PhoneInputs ==
  {Null, <<>>} \cup
  {SubSeq(PhoneText, i, j) : i \in 1 .. Len(PhoneText), j \in 1 .. Len(PhoneText)}

EmailChars == {"a", "B", "@", ".", " "}

\* null and every string of EmailChars up to MaxEmailLen characters
EmailInputs ==
  {Null} \cup UNION {[1 .. n -> EmailChars] : n \in 0 .. MaxEmailLen}

\* the tables as Init leaves them, and an input for one function
InitUtil ==
  /\ auth = [u \in Users |-> NoAuth]
  /\ profiles = [u \in Users |-> NoProfile]
  /\ customers = <<>>
  /\ docs = <<>>
  /\ messages = <<>>
  /\ InitInProcess
  /\ \/ \E phone \in PhoneInputs :
          resp = [EmptyResp EXCEPT !.op = "phoneInput", !.arg = phone]
     \/ \E email \in EmailInputs :
          resp = [EmptyResp EXCEPT !.op = "emailInput", !.arg = email]

UtilCall(input, fn, result) ==
  /\ resp.op = input
  /\ resp' = [resp EXCEPT !.op = fn, !.result = result]
  /\ UNCHANGED <<auth, profiles, customers, docs, messages, inProcess>>

NormalizePhoneCall == UtilCall("phoneInput", "normalizePhone", normalizePhone(resp.arg))

PhoneForStorageCall == UtilCall("phoneInput", "phoneForStorage", phoneForStorage(resp.arg))

EmailForStorageCall == UtilCall("emailInput", "emailForStorage", emailForStorage(resp.arg))

\* emailForStorage applied to the result of the last call of emailForStorage
EmailForStorageAgain ==
  /\ resp.op = "emailForStorage"
  /\ resp' = [resp EXCEPT !.op = "emailForStorageTwice",
                           !.again = emailForStorage(resp.result)]
  /\ UNCHANGED <<auth, profiles, customers, docs, messages, inProcess>>

NextUtil ==
  \/ NormalizePhoneCall
  \/ PhoneForStorageCall
  \/ EmailForStorageCall
  \/ EmailForStorageAgain

\* the create bodies of the stored-rows specifications
StoreBodies ==
  {b \in CreateBodies :
     /\ b.number # <<" ">> /\ b.type = "" /\ b.items = 0
     /\ b.recipient_email = Null
     /\ b.customer_id = 1 \/ b.recipient_phone # Null}

\* every request that writes a profile or customer row, and the creates that
\* copy a customer row into a document
NextStore ==
  \/ Accounts(ViewSenders, [u \in Users |-> StoreEdits(u)])
  \/ \E u \in ViewSenders : \E id \in 1 .. MaxCustomers :
       \E body \in CustomerUpdateBodies : CustomerUpdate(u, id, body)
  \/ \E u \in ViewSenders : \E body \in StoreBodies : InvoiceCreate(u, body, {})
  \/ \E u \in ViewSenders : \E body \in StoreBodies : QuotationCreate(u, body, {})
  \/ \E u \in Users : QuotationList(u, {})

\* every request made on a document after its creation
NextFrozen ==
  \/ \E u \in ViewSenders : \E body \in CustomerBodies : CustomerCreate(u, body)
  \/ \E u \in ViewSenders : \E id \in 1 .. MaxCustomers :
       \E body \in CustomerUpdateBodies : CustomerUpdate(u, id, body)
  \/ \E u \in ViewSenders : \E body \in StoreBodies : InvoiceCreate(u, body, {})
  \/ \E u \in ViewSenders : \E body \in StoreBodies : QuotationCreate(u, body, {})
  \/ \E u \in ViewSenders : \E id \in GetIds : \E body \in StoreUpdateBodies :
       InvoiceUpdate(u, id, body)
  \/ \E u \in ViewSenders : \E id \in GetIds : InvoiceDelete(u, id)
  \/ \E u \in ViewSenders : \E id \in GetIds : InvoiceAddItem(u, id)
  \/ \E u \in ViewSenders : \E id \in GetIds : \E itemId \in 1 .. MaxItems :
       InvoiceRemoveItem(u, id, itemId)
  \/ \E id \in GetIds : \E statusCode \in StatusCodes : PaymentCallback(id, statusCode)
  \/ \E u \in Registered0 : InvoiceList(u, {})
  \/ \E u \in Registered0 : QuotationList(u, {})
  \/ \E u \in Registered0 : \E id \in GetIds : InvoiceGet(u, id, {})
  \/ \E u \in Registered0 : \E id \in GetIds : QuotationGet(u, id, {})

\* the create bodies that carry line items
OrphanBodies == {b \in CreateBodies : b.items > 0}

\* the items insert succeeds or fails; every other call succeeds
ItemsFailures == {{}, {"itemsInsert"}}

\* creates with line items, and the reads every user makes afterwards
NextOrphan ==
  \/ \E u \in Users : Register(u, RegisterBody(u), {})
  \/ \E u \in ViewSenders : \E body \in CustomerBodies : CustomerCreate(u, body)
  \/ \E u \in ViewSenders : \E body \in OrphanBodies : \E f \in ItemsFailures :
       InvoiceCreate(u, body, f)
  \/ \E u \in ViewSenders : \E body \in OrphanBodies : \E f \in ItemsFailures :
       QuotationCreate(u, body, f)
  \/ \E u \in Users : InvoiceList(u, {})
  \/ \E u \in Users : QuotationList(u, {})
  \/ \E u \in Users : \E id \in GetIds : InvoiceGet(u, id, {})
  \/ \E u \in Users : \E id \in GetIds : QuotationGet(u, id, {})

\* invoices of A and of B, and every user's requests to change any of them
NextGuard ==
  \/ \E u \in Users : Register(u, RegisterBody(u), {})
  \/ \E u \in Senders : \E body \in CustomerBodies : CustomerCreate(u, body)
  \/ \E u \in Senders : \E body \in StoreBodies : InvoiceCreate(u, body, {})
  \/ \E u \in Users : \E id \in GetIds : \E body \in StoreUpdateBodies :
       InvoiceUpdate(u, id, body)
  \/ \E u \in Users : \E id \in GetIds : InvoiceDelete(u, id)
  \/ \E u \in Users : \E id \in GetIds : InvoiceAddItem(u, id)
  \/ \E u \in Users : \E id \in GetIds : \E itemId \in 1 .. MaxItems :
       InvoiceRemoveItem(u, id, itemId)

\* C signs up with its own number or with the number B signs up with
RaceBodies(u) ==
  {RegisterBody(u), [email |-> RegisterBody(u).email, phone |-> RegisterBody("B").phone]}

\* registers and quotation lists, each suspended at its first await
NextRegister ==
  \/ \E u \in Users : \E body \in RaceBodies(u) : RegisterCheck(u, body)
  \/ \E p \in pending : \E f \in FailureCases(RegisterSteps) : RegisterSignUp(p, f)
  \/ \E u \in Users : ListProfileRead(u)
  \/ \E p \in pending : ListProfileRepair(p)

\* quotation lists suspended at the profile read, and the owner's profile writes
NextRepair ==
  \/ \E u \in Users : \E f \in FailureCases(RegisterSteps) : Register(u, RegisterBody(u), f)
  \/ \E u \in Users : \E body \in PhoneEdits(u) \cup StoreEdits(u) : UpdateMe(u, body)
  \/ \E u \in Users : ListProfileRead(u)
  \/ \E p \in pending : ListProfileRepair(p)

Next ==
  \/ NextCreate
  \/ NextRegister
  \/ NextRepair
  \/ NextGuard
  \/ NextOrphan
  \/ NextView
  \/ NextStore
  \/ NextFrozen
  \/ NextUtil
  \/ NextOtp
  \/ NextExpiry
  \/ NextSession
  \/ \E u \in Users : \E body \in UpdateMeBodies(u) : UpdateMe(u, body)

\* the create pipeline: properties of creation and of the notification fan-out
SpecCreate == Init /\ [][NextCreate]_vars

\* the received view: properties of list, get-by-id and update
SpecView == Init /\ [][NextView]_vars

\* the stored rows: what the writing requests leave in the tables
SpecStore == Init /\ [][NextStore]_vars

\* documents after creation: what later requests leave of their recipient
SpecFrozen == Init /\ [][NextFrozen]_vars

\* the functions of recipient.util over bounded inputs
SpecUtil == InitUtil /\ [][NextUtil]_vars

\* one-time codes under concurrent requests
SpecOtp == Init /\ [][NextOtp]_vars

\* one-time codes and reset tokens as time passes
SpecExpiry == Init /\ [][NextExpiry]_vars

\* payment sessions as time passes
SpecSession == Init /\ [][NextSession]_vars

\* every request of the system
\* documents whose line items were not stored
SpecOrphan == Init /\ [][NextOrphan]_vars

\* invoices under the change requests of every user
SpecGuard == Init /\ [][NextGuard]_vars

\* only account A exists: B and C have yet to sign up
InitRegister ==
  /\ auth = [u \in Users |->
               IF u = "A"
               THEN SignedUp(Trim(RegisterBody(u).email),
                             StripNonDigits(Trim(RegisterBody(u).phone)))
               ELSE NoAuth]
  /\ profiles = [u \in Users |->
                   IF u = "A"
                   THEN RegisterRow(Trim(RegisterBody(u).email),
                                    StripNonDigits(Trim(RegisterBody(u).phone)),
                                    NoProfile)
                   ELSE NoProfile]
  /\ customers = <<>>
  /\ docs = <<>>
  /\ messages = <<>>
  /\ resp = EmptyResp
  /\ InitInProcess

\* concurrent registrations and lazy profile creation
SpecRegister == InitRegister /\ [][NextRegister]_vars

\* the lazy repair against the owner's concurrent profile writes
SpecRepair == Init /\ [][NextRepair]_vars

Spec == Init /\ [][Next]_vars

\* ------------------------------------------------------------------------
\* Properties
\* ------------------------------------------------------------------------
CreateOps == {"invoiceCreate", "quotationCreate"}

ListOps == {"invoiceList", "quotationList"}

GetOps == {"invoiceGet", "quotationGet"}

\* first non-empty of metadata value, auth primary field, stored profile field
FirstNonEmpty(a, b, c) == OrElse(OrElse(OrElse(a, b), c), <<>>)

CanonicalPhone(u) ==
  normalizePhone(FirstNonEmpty(auth[u].meta_phone, auth[u].phone, profiles[u].phone))

CanonicalEmail(u) ==
  normalizeEmail(FirstNonEmpty(auth[u].meta_email, auth[u].email, profiles[u].email))

\* every phone / email the caller holds in any identity source, normalized
CallerPhones(u) ==
  {normalizePhone(x) : x \in {auth[u].meta_phone, auth[u].phone, profiles[u].phone}}
    \ {<<>>}

CallerEmails(u) ==
  {normalizeEmail(x) : x \in {auth[u].meta_email, auth[u].email, profiles[u].email}}
    \ {<<>>}

HasSuffix(s, t) == Len(t) <= Len(s) /\ SubSeq(s, Len(s) - Len(t) + 1, Len(s)) = t

\* the document's recipient phone equals or ends with the caller's canonical
\* phone, or its recipient email equals the caller's canonical email
AddressedTo(d, u) ==
  \/ /\ Truthy(d.recipient_phone)
     /\ Truthy(CanonicalPhone(u))
     /\ HasSuffix(d.recipient_phone, CanonicalPhone(u))
  \/ /\ Truthy(d.recipient_email)
     /\ ToLower(d.recipient_email) = CanonicalEmail(u)

\* the same with any phone or email the caller holds, whatever its source
AddressedToAny(d, u) ==
  \/ /\ Truthy(d.recipient_phone)
     /\ \E p \in CallerPhones(u) : HasSuffix(d.recipient_phone, p)
  \/ /\ Truthy(d.recipient_email)
     /\ ToLower(d.recipient_email) \in CallerEmails(u)

MessagesOf(d) == {i \in DOMAIN messages : messages[i].doc = d}

\* C1: a create whose resolved recipient_phone and recipient_email are both
\* null is rejected and writes no row: no persisted document lacks both, and a
\* rejected create leaves documents and messages as they were.
C1_NoRecipientRejected ==
  /\ \A i \in DOMAIN docs :
       Truthy(docs[i].recipient_phone) \/ Truthy(docs[i].recipient_email)
  /\ \A i \in DOMAIN messages :
       LET d == docs[messages[i].doc]
       IN  Truthy(d.recipient_phone) \/ Truthy(d.recipient_email)

\* C2: get-by-id returns the document only to its owner (as persisted) or to a
\* caller whose canonical phone or email matches the stored recipient (tagged
\* 'received'); every other outcome is the not-found response, the same as
\* for an id that does not exist.
C2_GetOnlyOwnerOrRecipient ==
  resp.op \in GetOps =>
    IF resp.status = "ok"
    THEN /\ resp.doc \in DOMAIN docs
         /\ LET d == docs[resp.doc]
            IN  \/ /\ d.user_id = resp.caller
                   /\ resp.entries = {[id |-> resp.doc, type |-> d.type]}
                \/ /\ d.user_id # resp.caller
                   /\ AddressedTo(d, resp.caller)
                   /\ resp.entries = {[id |-> resp.doc, type |-> "received"]}
    ELSE [resp EXCEPT !.sought = 0] = NotFound(resp.op, resp.caller)

\* the table a list or get operation reads
KindOf(op) == IF op \in {"invoiceList", "invoiceGet", "invoiceCreate"}
              THEN "invoice" ELSE "quotation"

\* C3: a document whose recipient phone (email) is P (E) is returned, tagged
\* 'received', by every list call of another user whose canonical phone is P
\* (canonical email is E).
C3_ListedForCanonicalIdentity ==
  (resp.op \in ListOps /\ resp.status = "ok" /\ resp.fails = {}) =>
    \A i \in DocIds(KindOf(resp.op)) :
      ( /\ docs[i].user_id # resp.caller
        /\ \/ Eq(docs[i].recipient_phone, CanonicalPhone(resp.caller))
           \/ Eq(docs[i].recipient_email, CanonicalEmail(resp.caller)) )
      => [id |-> i, type |-> "received"] \in resp.entries

\* every list entry the caller does not own is addressed to a phone or email
\* the caller holds in some identity source
ListedOnlyIfAddressedToAny ==
  (resp.op \in ListOps /\ resp.status = "ok") =>
    \A e \in resp.entries :
      docs[e.id].user_id # resp.caller => AddressedToAny(docs[e.id], resp.caller)

\* get-by-id returns a document the caller does not own only if it is
\* addressed to a phone or email the caller holds in some identity source
GetOnlyIfAddressedToAny ==
  (resp.op \in GetOps /\ resp.status = "ok" /\ docs[resp.doc].user_id # resp.caller)
    => AddressedToAny(docs[resp.doc], resp.caller)

\* C4: every list entry is a document the caller owns, or a document the
\* caller does not own that is addressed to one of the caller's phones/emails;
\* the entries of the second kind, and only those, carry type 'received'.
C4_ListOnlyOwnOrAddressed ==
  (resp.op \in ListOps /\ resp.status = "ok") =>
    \A e \in resp.entries :
      /\ e.id \in DocIds(KindOf(resp.op))
      /\ LET d == docs[e.id]
         IN  /\ d.user_id # resp.caller => AddressedTo(d, resp.caller)
             /\ (e.type = "received") <=> (d.user_id # resp.caller)

\* C5: no persisted invoice or quotation row has type 'received'.
C5_NeverPersistReceived == \A i \in DOMAIN docs : docs[i].type # "received"

\* C6: once the document row and its line items are persisted, create returns
\* the persisted document as success, whatever notification step failed.
C6_NotificationFailureNotFatal ==
  (resp.op \in CreateOps /\ resp.persisted # 0 /\ resp.itemsOk) =>
    /\ resp.status = "ok"
    /\ resp.doc = resp.persisted
    /\ resp.doc \in DocIds(KindOf(resp.op))
    /\ resp.entries = {[id |-> resp.doc, type |-> docs[resp.doc].type]}

\* a create that succeeded although a message insert it attempted failed
C6_Witness ==
  /\ resp.op \in CreateOps
  /\ resp.status = "ok"
  /\ Len(resp.attempts) > Cardinality(MessagesOf(resp.doc))

\* C7: a successful create attempts exactly one message insert for the sender
\* and exactly one for each resolved receiver, none twice; the sender is no
\* receiver; no user holds two messages for one document.
C7_OneMessagePerUser ==
  /\ (resp.op \in CreateOps /\ resp.status = "ok") =>
       /\ resp.caller \notin resp.receivers
       /\ Len(resp.attempts) = 1 + Cardinality(resp.receivers)
       /\ resp.attempts[1] = [user_id |-> resp.caller, style |-> "sender"]
       /\ \A r \in resp.receivers :
            Cardinality({i \in DOMAIN resp.attempts :
                           resp.attempts[i] = [user_id |-> r, style |-> "receiver"]}) = 1
  /\ \A i, j \in DOMAIN messages :
       (messages[i].doc = messages[j].doc /\ messages[i].user_id = messages[j].user_id)
         => i = j
  /\ \A i \in DOMAIN messages :
       messages[i].style = "receiver" => messages[i].user_id # docs[messages[i].doc].user_id

\* a successful create with a receiver, one of whose attempted inserts failed
C7_Witness ==
  /\ resp.op \in CreateOps
  /\ resp.status = "ok"
  /\ resp.receivers # {}
  /\ Len(resp.attempts) > Cardinality(MessagesOf(resp.doc))

\* the receiver set as the claim states it
ClaimedReceivers(rp, re, sender) ==
  {v \in Users :
     /\ profiles[v].exists
     /\ v # sender
     /\ \/ Truthy(rp) /\ profiles[v].phone # Null /\ HasSuffix(profiles[v].phone, rp)
        \/ Truthy(re) /\ profiles[v].email # Null
                      /\ ToLower(profiles[v].email) = ToLower(re)}

\* C8: the receiver set computed at create is the set of profiles whose phone
\* equals or ends with the recipient phone, or whose email equals the
\* recipient email case-insensitively, minus the sender.
C8_ReceiverSetIsUnion ==
  (resp.op \in CreateOps /\ resp.status = "ok") =>
    resp.receivers =
      ClaimedReceivers(docs[resp.doc].recipient_phone,
                       docs[resp.doc].recipient_email, resp.caller)

\* C9: the identity used for matching is, for phone and email independently,
\* the first non-empty of metadata value, auth primary field, profile field.
C9_IdentityOrder ==
  (resp.op \in ListOps /\ resp.status = "ok" /\ resp.fails = {}) =>
    /\ resp.myPhone = CanonicalPhone(resp.caller)
    /\ resp.myEmail = CanonicalEmail(resp.caller)

\* C10: a list call by a caller whose profile row exists with both phone and
\* email performs no write to the profiles table.
C10_NoWriteWhenComplete ==
  ( /\ resp.op \in ListOps
    /\ resp.status = "ok"
    /\ resp.rowBefore.exists
    /\ Truthy(resp.rowBefore.phone)
    /\ Truthy(resp.rowBefore.email) )
  => resp.writes = 0 /\ profiles[resp.caller] = resp.rowBefore

\* the caller's identity as the auth provider alone gives it
AuthPhone(u) == normalizePhone(FirstNonEmpty(auth[u].meta_phone, auth[u].phone, Null))

AuthEmail(u) == normalizeEmail(FirstNonEmpty(auth[u].email, auth[u].meta_email, Null))

\* the quotations of other users addressed to phone p or email e
QuotationsAddressedTo(u, p, e) ==
  {i \in DocIds("quotation") :
     /\ docs[i].user_id # u
     /\ \/ Truthy(p) /\ (Eq(docs[i].recipient_phone, p)
                         \/ Like(docs[i].recipient_phone, <<"%">> \o p))
        \/ Truthy(e) /\ ILike(docs[i].recipient_email, e)}

\* a quotations list call whose profile repair wrote nothing although it tried
HealFailed ==
  /\ resp.op = "quotationList"
  /\ resp.fails \in {{"profileUpsert"}, {"profileUpdate"}}
  /\ resp.writes > 0
  /\ profiles[resp.caller] = resp.rowBefore

\* C11: when the profile repair writes of quotations list fail, the request
\* still succeeds and returns the caller's sent quotations and the received
\* ones, matched with the identity the auth provider gives.
C11_HealFailureNotFatal ==
  HealFailed =>
    /\ resp.status = "ok"
    /\ resp.myPhone = AuthPhone(resp.caller)
    /\ resp.myEmail = AuthEmail(resp.caller)
    /\ resp.entries =
         SentEntries("quotation", resp.caller)
           \cup Received(QuotationsAddressedTo(resp.caller, AuthPhone(resp.caller),
                                               AuthEmail(resp.caller)))

\* a failed repair, and a received quotation still listed
C11_Witness ==
  /\ HealFailed
  /\ resp.status = "ok"
  /\ \E e \in resp.entries : e.type = "received" /\ docs[e.id].user_id # resp.caller

\* phone is null or exactly ten digits
CanonicalPhoneValue(p) ==
  p = Null \/ (Len(p) = PhoneLen /\ \A i \in DOMAIN p : IsDigit(p[i]))

\* email is null or lowercased, trimmed and of the form local@domain.tld
CanonicalEmailValue(e) ==
  e = Null \/ (e = Trim(ToLower(e)) /\ EmailPattern(e))

\* C12: every invoice and quotation row a create persists has recipient_phone
\* null or exactly ten digits, and recipient_email null or lowercased, trimmed
\* and of the form local@domain.tld, whatever the customer row and the body
\* contain.
C12_RecipientFieldsCanonical ==
  (resp.op \in CreateOps /\ resp.persisted # 0) =>
    /\ CanonicalPhoneValue(docs[resp.persisted].recipient_phone)
    /\ CanonicalEmailValue(docs[resp.persisted].recipient_email)

\* C13: every stored profile and customer row has phone null or exactly ten
\* digits, and email null or lowercased, trimmed and pattern-valid.
C13_StoredIdentityCanonical ==
  /\ \A u \in Users :
       profiles[u].exists =>
         /\ CanonicalPhoneValue(profiles[u].phone)
         /\ CanonicalEmailValue(profiles[u].email)
  /\ \A i \in DOMAIN customers :
       /\ CanonicalPhoneValue(customers[i].phone)
       /\ CanonicalEmailValue(customers[i].email)

\* C20: no request changes the recipient_phone or recipient_email of a
\* document that exists before and after it.
C20_RecipientFieldsFrozen ==
  [][\A i \in DOMAIN docs :
       (~docs[i].deleted /\ ~docs'[i].deleted) =>
         /\ docs'[i].recipient_phone = docs[i].recipient_phone
         /\ docs'[i].recipient_email = docs[i].recipient_email]_vars

\* the documents of other users the list of the caller tags 'received'
ListedAsReceived(kind, u) ==
  IF kind = "invoice" THEN InvoiceListReceived(u, {}) ELSE QuotationListReceived(u, {})

\* C14: for every caller and every document the caller does not own, the
\* list returns it tagged 'received' exactly when get-by-id returns it.
C14_ListAndGetAgree ==
  \A u \in Users : \A kind \in {"invoice", "quotation"} : \A i \in DocIds(kind) :
    (auth[u].registered /\ docs[i].user_id # u) =>
      (i \in ListedAsReceived(kind, u) <=> GetIsRecipient(kind, u, i, {}))

\* the same for invoices alone
InvoiceListAndGetAgree ==
  \A u \in Users : \A i \in DocIds("invoice") :
    (auth[u].registered /\ docs[i].user_id # u) =>
      (i \in InvoiceListReceived(u, {}) <=> GetIsRecipient("invoice", u, i, {}))

\* C15: a quotation create whose body supplies a recipient_email the storage-email
\* validator rejects is answered with a validation error and writes no row,
\* whatever the customer or an explicit phone would resolve to.
C15_InvalidExplicitEmailRejected ==
  ( /\ resp.op = "quotationCreate"
    /\ resp.explicitEmail # Null
    /\ emailForStorage(resp.explicitEmail) = Null )
  => resp.status = "bad_request" /\ resp.persisted = 0

\* the payloads of the push batch that are for user v
PayloadsFor(v) == {i \in DOMAIN resp.pushed : resp.pushed[i].user_id = v}

\* a successful quotation create all of whose token lookups answered
PushBatchBuilt ==
  /\ resp.op = "quotationCreate"
  /\ resp.status = "ok"
  /\ resp.fails \cap {"tokenLookupA", "tokenLookupB", "tokenLookupC"} = {}

C16_NoTokenNoCall ==
  /\ PushBatchBuilt
  /\ resp.receivers # {}
  /\ ~resp.pushCalled

\* C17: a create that returns success has persisted the document row and
\* every line item of the request, and neither the document insert nor the
\* line-item insert had failed.
C17_SuccessMeansPersisted ==
  (resp.op \in CreateOps /\ resp.status = "ok") =>
    /\ resp.doc \in DocIds(KindOf(resp.op))
    /\ docs[resp.doc].user_id = resp.caller
    /\ docs[resp.doc].items = resp.requested
    /\ "docInsert" \notin resp.fails
    /\ resp.requested > 0 => "itemsInsert" \notin resp.fails

\* a successful create that persisted line items
C17_Witness ==
  /\ resp.op \in CreateOps
  /\ resp.status = "ok"
  /\ resp.requested > 0
  /\ docs[resp.doc].items = resp.requested

\* the digits of a string, in order
DigitsOf(s) == IF s = Null THEN <<>> ELSE SelectSeq(s, IsDigit)

\* the last n elements of s, all of s if it has fewer
LastOf(s, n) == IF Len(s) <= n THEN s ELSE SubSeq(s, Len(s) - n + 1, Len(s))

\* C18: normalizePhone returns the last 10 digits of the input's digits, or
\* the empty string if fewer than 10 digits remain; phoneForStorage returns
\* the last 10 digits, or null if fewer than 10 remain; neither returns a
\* non-empty value that is shorter than 10 characters or holds a non-digit.
C18_PhoneFunctions ==
  /\ resp.op = "normalizePhone" =>
       /\ resp.result = IF Len(DigitsOf(resp.arg)) < PhoneLen THEN <<>>
                        ELSE LastOf(DigitsOf(resp.arg), PhoneLen)
       /\ resp.result = <<>> \/ Len(resp.result) = PhoneLen
       /\ \A i \in DOMAIN resp.result : IsDigit(resp.result[i])
  /\ resp.op = "phoneForStorage" =>
       /\ resp.result = IF Len(DigitsOf(resp.arg)) < PhoneLen THEN Null
                        ELSE LastOf(DigitsOf(resp.arg), PhoneLen)
       /\ resp.result = Null \/
            (Len(resp.result) = PhoneLen /\ \A i \in DOMAIN resp.result : IsDigit(resp.result[i]))

\* what the functions do return: normalizePhone the last up to 10 digits,
\* phoneForStorage the last 10 digits or null
PhoneFunctionsAsCoded ==
  /\ resp.op = "normalizePhone" => resp.result = LastOf(DigitsOf(resp.arg), PhoneLen)
  /\ resp.op = "phoneForStorage" =>
       resp.result = IF Len(DigitsOf(resp.arg)) < PhoneLen THEN Null
                      ELSE LastOf(DigitsOf(resp.arg), PhoneLen)

\* s with every capital replaced by its small letter
Lowered(s) ==
  [i \in DOMAIN s |->
     IF \E k \in DOMAIN UpperChars : UpperChars[k] = s[i]
     THEN LowerChars[CHOOSE k \in DOMAIN UpperChars : UpperChars[k] = s[i]]
     ELSE s[i]]

\* every stretch of s, the empty one included
Stretches(s) == {SubSeq(s, i, j) : i \in 1 .. (Len(s) + 1), j \in 0 .. Len(s)}

\* s is t with spaces before and after it
IsTrimOf(s, t) ==
  /\ t = <<>> \/ (~IsSpace(t[1]) /\ ~IsSpace(t[Len(t)]))
  /\ \E i \in 0 .. Len(s) :
       /\ i + Len(t) <= Len(s)
       /\ \A k \in 1 .. Len(s) :
            IF k > i /\ k <= i + Len(t) THEN s[k] = t[k - i] ELSE IsSpace(s[k])

\* e is local@domain.tld, each part non-empty and free of spaces and @
HasAddressShape(e) ==
  \E i, j \in DOMAIN e :
    /\ 1 < i /\ i + 1 < j /\ j < Len(e)
    /\ e[i] = "@" /\ e[j] = "."
    /\ \A k \in DOMAIN e : k # i => (e[k] # "@" /\ ~IsSpace(e[k]))

\* C19: emailForStorage returns null unless the lowercased, trimmed input has
\* the shape non-space@non-space.non-space, and then returns exactly that
\* string; applied to its own non-null result it returns the same value.
C19_EmailForStorage ==
  resp.op \in {"emailForStorage", "emailForStorageTwice"} =>
    /\ IF resp.arg # Null /\ \E t \in Stretches(Lowered(resp.arg)) :
                               IsTrimOf(Lowered(resp.arg), t) /\ HasAddressShape(t)
       THEN IsTrimOf(Lowered(resp.arg), resp.result) /\ HasAddressShape(resp.result)
       ELSE resp.result = Null
    /\ (resp.op = "emailForStorageTwice" /\ resp.result # Null) =>
         resp.again = resp.result

\* an address with a capital and a space around it, stored and stored again
C19_Witness ==
  /\ resp.op = "emailForStorageTwice"
  /\ resp.result # Null
  /\ resp.result # resp.arg
  /\ \E i \in DOMAIN resp.arg : resp.arg[i] \in Range(UpperChars)
  /\ IsSpace(resp.arg[1])

\* ------------------------------------------------------------------------
\* One-time codes and reset tokens
\* ------------------------------------------------------------------------
OtpOps == {"verifyOtp", "loginWithOtp"}

OtpKeys == {ToLower(Trim(e)) : e \in SendOtpInputs2}

\* the codes a verification would accept for an address in this state
AcceptedNow(key) ==
  {c \in Codes :
     /\ MapHas(otpStore, key)
     /\ ~(now > otpStore[key].expiresAt)
     /\ otpStore[key].code = c}

\* C21: at any time at most one code is valid per normalized email, and a
\* code that verifyOtp or verifyOtpOnly accepts is the code issued last for
\* its address, however the sendOtp and verify requests interleave
C21_OnlyLatestCodeAccepted ==
  /\ \A key \in OtpKeys : Cardinality(AcceptedNow(key)) <= 1
  /\ resp.op \in OtpOps /\ resp.otp = "accepted" =>
       LET i == LastIssue(hist, ToLower(Trim(resp.email)))
       IN  i > 0 /\ hist.codes[i].code = Trim(resp.code)

\* C21 witness: a code is accepted for an address that was sent two different
\* codes, while a sendOtp request is still waiting for its mail
C21_Witness ==
  /\ resp.op \in OtpOps /\ resp.otp = "accepted"
  /\ pending # {}
  /\ \E i, j \in DOMAIN hist.codes :
       /\ i < j
       /\ hist.codes[i].email = ToLower(Trim(resp.email))
       /\ hist.codes[j].email = hist.codes[i].email
       /\ hist.codes[i].code # hist.codes[j].code

\* every code was accepted at most once and before its expiry, and so was
\* every reset token
OneTimeAndInTime ==
  /\ \A i, j \in DOMAIN hist.accepted :
       i # j => hist.accepted[i].serial # hist.accepted[j].serial
  /\ \A i \in DOMAIN hist.accepted :
       hist.accepted[i].serial > 0 /\ ~hist.accepted[i].late
  /\ \A i, j \in DOMAIN hist.consumed :
       i # j => hist.consumed[i].token # hist.consumed[j].token
  /\ \A i \in DOMAIN hist.consumed : ~hist.consumed[i].late

\* a step adds a reset token only as the answer of a verifyOtp that accepted
\* the stored code, for the address verified, and changes no other token;
\* a consumed token answers with the address it was stored for
ResetTokenStep ==
  /\ \A t \in DOMAIN resetTokenStore' :
       IF t \in DOMAIN resetTokenStore
       THEN resetTokenStore'[t] = resetTokenStore[t]
       ELSE LET key == ToLower(Trim(resp'.email))
            IN  /\ resp'.op = "verifyOtp" /\ resp'.otp = "accepted"
                /\ resp'.token = t
                /\ resetTokenStore'[t].email = key
                /\ MapHas(otpStore, key)
                /\ otpStore[key].code = Trim(resp'.code)
  /\ Len(hist'.consumed) > Len(hist.consumed) =>
       /\ resp'.op = "resetPassword"
       /\ MapHas(resetTokenStore, resp'.token)
       /\ resp'.email = resetTokenStore[resp'.token].email

\* a verification with a code other than the stored one
WrongCode ==
  LET key == ToLower(Trim(resp'.email))
  IN  /\ resp'.op \in OtpOps
      /\ MapHas(otpStore, key)
      /\ otpStore[key].code # Trim(resp'.code)

StoresKept == otpStore' = otpStore /\ resetTokenStore' = resetTokenStore

\* C30 as stated: codes and reset tokens are accepted at most once and never
\* after their expiry, a reset token comes only from a successful verifyOtp
\* and is bound to its address, and a verification with a wrong code leaves
\* the stored code and the reset-token store unchanged
C30_WrongCodeChangesNothing ==
  /\ []OneTimeAndInTime
  /\ [][ResetTokenStep]_vars
  /\ [][WrongCode => StoresKept]_vars

\* C30 amended: the same, where a verification with a wrong code leaves a
\* stored code that has not expired and the reset-token store unchanged
C30_WrongCodeKeepsUnexpired ==
  /\ []OneTimeAndInTime
  /\ [][ResetTokenStep]_vars
  /\ [][(WrongCode /\ ~(now > otpStore[ToLower(Trim(resp'.email))].expiresAt))
          => StoresKept]_vars

\* C30 witness: after a code was accepted and its reset token consumed, a
\* wrong code is refused while a newer code is stored
C30_Witness ==
  /\ resp.op \in OtpOps /\ resp.otp = "invalid"
  /\ MapHas(otpStore, ToLower(Trim(resp.email)))
  /\ Len(hist.accepted) >= 1
  /\ Len(hist.consumed) >= 1

\* ------------------------------------------------------------------------
\* Payment sessions
\* ------------------------------------------------------------------------

\* the reads of a sid since it was handed out, in the order they were made
ReadsOf(sid) == SelectSeq(hist.redeemed, LAMBDA r : r.sid = sid /\ r.issued)

\* C22: a session id handed out by createPaymentInit is redeemed at most
\* once and never once five minutes have passed: the first read within the
\* timeout finds the session, every later read and every late read finds none
C22_SessionRedeemedOnce ==
  /\ \A sid \in Sids :
       LET reads == ReadsOf(sid)
       IN  \A i \in DOMAIN reads :
             reads[i].found <=> (i = 1 /\ ~reads[i].late)
  /\ \A i \in DOMAIN hist.redeemed :
       ~hist.redeemed[i].issued => ~hist.redeemed[i].found
  /\ resp.op = "redirectToSabPaisa" =>
       (resp.session # Null <=> hist.redeemed[Len(hist.redeemed)].found)

\* C22 witness: a session was redeemed, read again in vain, and another one
\* was read in vain after its five minutes
C22_Witness ==
  /\ resp.op = "redirectToSabPaisa" /\ resp.status = "not_found"
  /\ \E i, j \in DOMAIN hist.redeemed :
       /\ i < j
       /\ hist.redeemed[i].sid = hist.redeemed[j].sid
       /\ hist.redeemed[i].found
  /\ \E i \in DOMAIN hist.redeemed :
       /\ hist.redeemed[i].late /\ hist.redeemed[i].issued
       /\ \A j \in DOMAIN hist.redeemed :
            hist.redeemed[j].sid = hist.redeemed[i].sid => j >= i

\* ------------------------------------------------------------------------
\* Fan-out under a failing message insert
\* ------------------------------------------------------------------------

\* a create that reached the fan-out
FannedOut == resp.op \in CreateOps /\ resp.persisted # 0 /\ resp.itemsOk

\* a fan-out one of whose message inserts failed
MessageInsertFailed ==
  FannedOut /\ Len(resp.attempts) > Cardinality(MessagesOf(resp.persisted))

HasMessage(v, d) == \E i \in MessagesOf(d) : messages[i].user_id = v

\* C23: a failing Message insert for the sender or for one receiver does not
\* prevent the inserts for the remaining receivers nor the push and email
\* steps that follow: every other insert is attempted and stored, the push
\* batch holds every token holder, the email goes to a valid customer address
C23_FanOutIndependent ==
  /\ FannedOut =>
       /\ resp.status = "ok"
       /\ \A v \in {resp.caller} \cup resp.receivers :
            \E i \in DOMAIN resp.attempts : resp.attempts[i].user_id = v
  /\ MessageInsertFailed =>
       /\ Cardinality(MessagesOf(resp.persisted)) = Len(resp.attempts) - 1
       /\ resp.op = "quotationCreate" =>
            /\ \A v \in {resp.caller} \cup resp.receivers :
                 (profiles[v].exists /\ Truthy(profiles[v].expo_push_token))
                   => PayloadsFor(v) # {}
            /\ resp.pushCalled <=> (resp.pushed # <<>>)
       /\ resp.op = "invoiceCreate" =>
            (resp.mailed <=>
               /\ docs[resp.persisted].customer_id # 0
               /\ LET e == customers[docs[resp.persisted].customer_id].email
                  IN  e # Null /\ EmailPattern(Trim(e)))

\* C23 witness: the sender's insert failed, a receiver's message is stored,
\* and the push or the email that follows was issued
C23_Witness ==
  /\ MessageInsertFailed
  /\ ~HasMessage(resp.caller, resp.persisted)
  /\ \E r \in resp.receivers : HasMessage(r, resp.persisted)
  /\ resp.mailed \/ resp.pushCalled

\* ------------------------------------------------------------------------
\* The rows of a list
\* ------------------------------------------------------------------------

NothingIssued ==
  /\ resp.attempts = <<>>
  /\ resp.pushed = <<>> /\ ~resp.pushCalled /\ resp.pushSent = <<>>
  /\ ~resp.mailed

\* a create that failed at validation, at recipient resolution or at the
\* document insert fails the request and issues nothing; so does one whose
\* line-item insert failed
FailedCreateIssuesNothing ==
  (resp.op \in CreateOps /\ ~(resp.persisted # 0 /\ resp.itemsOk)) =>
    /\ resp.status = "bad_request"
    /\ NothingIssued
    /\ resp.persisted # 0 => MessagesOf(resp.persisted) = {}

\* a step writes a document row only in a create that passed validation and
\* recipient resolution, and messages only for a row the same create wrote
\* with all its line items
WritesInOrder ==
  /\ docs' # docs =>
       /\ resp'.op \in CreateOps
       /\ resp'.persisted = Len(docs') /\ Len(docs') = Len(docs) + 1
       /\ SubSeq(docs', 1, Len(docs)) = docs
  /\ (resp'.op \in CreateOps /\ resp'.persisted = 0) =>
       docs' = docs /\ messages' = messages
  /\ messages' # messages =>
       /\ resp'.op \in CreateOps
       /\ resp'.status = "ok" /\ resp'.itemsOk
       /\ resp'.persisted = Len(docs') /\ Len(docs') = Len(docs) + 1
       /\ docs'[resp'.persisted].items = resp'.requested
       /\ SubSeq(messages', 1, Len(messages)) = messages
       /\ \A i \in DOMAIN messages' :
            i > Len(messages) => messages'[i].doc = resp'.persisted

\* C25: create runs its steps in order: no write before validation and
\* recipient resolution have passed, line items only after the document row,
\* no Message insert, push or email before the row and all its line items
\* are persisted; a failed document or line-item insert fails the request
\* and no notification of any channel is issued
C25_CreateStepsInOrder ==
  /\ []FailedCreateIssuesNothing
  /\ [][WritesInOrder]_vars

\* C25 witness: a create whose line-item insert failed after the document
\* row was written
C25_Witness ==
  /\ resp.op \in CreateOps
  /\ resp.status = "bad_request"
  /\ resp.persisted # 0 /\ ~resp.itemsOk
  /\ docs[resp.persisted].items = 0
\* a create that answered with an error after its document row was inserted
ItemsInsertFailed ==
  /\ resp.op \in {"invoiceCreate", "quotationCreate"}
  /\ resp.status = "bad_request"
  /\ resp.persisted # 0

\* a stored document without line items whose create carried some
Orphan(i) == i \in DOMAIN docs /\ ~docs[i].deleted /\ docs[i].items = 0

\* the owner of document i, or a user whose canonical phone or email is the
\* recipient stored in it
OwnerOrRecipient(i, u) ==
  \/ docs[i].user_id = u
  \/ Eq(docs[i].recipient_phone, CanonicalPhone(u))
  \/ Eq(docs[i].recipient_email, CanonicalEmail(u))

ChangeOps == {"invoiceUpdate", "invoiceDelete", "addItem", "removeItem"}

\* a change request leaves every document row, with its items, that its caller
\* does not own as it was
OthersRowsKept ==
  resp'.op \in ChangeOps =>
    \A i \in DOMAIN docs :
      docs[i].user_id # resp'.caller => (i \in DOMAIN docs' /\ docs'[i] = docs[i])

\* C26: update, delete, addItem and removeItem of invoices issued by a user
\* never change an invoice, or the items of an invoice, that the user does not
\* own, also when the user is a matched recipient of that invoice.
C26_OnlyOwnInvoicesChanged == [][OthersRowsKept]_vars

\* C26 witness: B, the matched recipient of an invoice of A that has an item,
\* asked to remove that item and was answered not-found.
C26_Witness ==
  /\ resp.op = "removeItem" /\ resp.caller = "B" /\ resp.status = "not_found"
  /\ resp.sought \in DocIds("invoice")
  /\ docs[resp.sought].user_id = "A"
  /\ docs[resp.sought].items > 0
  /\ AddressedTo(docs[resp.sought], "B")

\* C27: one phone number belongs to at most one account: no two profile rows
\* hold the same stored phone, after any interleaving of register requests
\* and lazy profile creation.
C27_OnePhoneOneAccount ==
  \A u, v \in Users :
    (u # v /\ profiles[u].exists /\ profiles[v].exists /\ Truthy(profiles[u].phone))
      => profiles[u].phone # profiles[v].phone

\* the step of a list that resumes after its profile read
Resumes(p) == p \in pending /\ p.op = "list" /\ pending' = pending \ {p}

\* a resuming list leaves a non-empty stored phone and a non-empty stored
\* email as the table holds them
RepairKeepsStored ==
  \A p \in pending :
    Resumes(p) =>
      /\ Truthy(profiles[p.u].phone) => profiles'[p.u].phone = profiles[p.u].phone
      /\ Truthy(profiles[p.u].email) => profiles'[p.u].email = profiles[p.u].email

\* C28: the lazy profile repair in list never replaces a non-empty stored
\* profile phone or email, also when the owner's profile write lands between
\* the list's profile read and its corrective upsert or update.
C28_RepairNeverReplaces == [][RepairKeepsStored]_vars

====
